---------------------------- MODULE Spec2Model ----------------------------
(***************************************************************************)
(* The feed synchronisation and delivery pipeline of the takeshi bot:      *)
(* processRssFeeds / sendRssToWebhook (services/rss/rss-service.mjs),      *)
(* safeCompareDate (services/rss/feed-formatter.mjs), getRssStatus /       *)
(* updateRssStatus (database/rss-database.mjs) and getWebhookInChannel     *)
(* (discord/webhook-utils.mjs).                                            *)
(*                                                                         *)
(* Values.  A string field that is undefined, null or '' (all falsy in     *)
(* JavaScript) is Null.  An instant is a number of milliseconds since the  *)
(* epoch.  An item's pubDate is NoDate (absent), BadDate (a string that    *)
(* new Date() cannot parse) or the instant its string parses to.           *)
(***************************************************************************)
EXTENDS Integers, Sequences, FiniteSets, TLC

VARIABLES
    feedSrc,       \* url -> the item list the feed source returns
    rssStore,      \* url -> NoDoc or the rss_status document of the feed
    clock,         \* getCurrentTimestamp(): advances with every store write
    webhookCache,  \* channel id -> 0 (no entry) or the cached webhook
    hooks,         \* channel id -> number of webhooks with a token it holds
    service,       \* startRssService: "starting", "firstRun" or "scheduled"
    cyc,           \* process -> the state of its processRssFeeds invocation
    cycles,        \* number of cycles started so far
    mon,           \* observations of the current cycle (history only)
    prev,          \* observations kept from the previous cycle (history only)
    dd,            \* the inputs and result of the dedup functions (SpecDedup)
    sched,         \* the start of the bot and its scheduler (SpecSched)
    fav,           \* one call of the icon resolver (SpecFavicon)
    fmt,           \* one call of the sort or of the content block (SpecFormat)
    wh,            \* the webhook cache over threads and channels (SpecWebhook)
    conv           \* the conversation store of the assistant (SpecConv)

vars == <<feedSrc, rssStore, clock, webhookCache, hooks, service, cyc, cycles,
          mon, prev, dd, sched, fav, fmt, wh, conv>>

-----------------------------------------------------------------------------
(* Bounds *)

MaxItems == 3
MaxCycles == 2
MaxFeeds == 3
MaxTicks == 4
MaxLabels == 4
MaxLinks == 2
MaxBatch == 4
MaxPad == 2
MaxHooks == 2
MaxCalls == 3
MaxMessages == 23
MaxQuanta == 4
MaxInFlight == 2

-----------------------------------------------------------------------------
(* Values *)

Null == "null"
NoDate == -1
BadDate == -2
NaN == -3
MsPerSec == 1000
SnippetLimit == 500

Instants == {1000, 1500, 3000}

\* rss-parser items, reduced to the fields the pipeline reads
Item(g, d, t) == [guid |-> g, pubDate |-> d, title |-> t]

\* The items feed X can carry, and those of feed Y
ItemsX ==
    { Item("g1", 3000, "a"), Item("g2", 1000, "b"), Item(Null, 1500, "a"),
      Item("g3", BadDate, "c"), Item(Null, NoDate, Null) }
ItemsY == { Item("h1", 1000, "p") }

\* config.rssConfig: the ordered feed list read at rss-service.mjs:115-116
rssConfig ==
    << [name |-> "X", url |-> "ux", channels |-> <<"A", "B">>],
       [name |-> "Y", url |-> "uy", channels |-> <<"A">>] >>

Urls == { rssConfig[i].url : i \in 1..Len(rssConfig) }
Channels == UNION { { rssConfig[i].channels[j] : j \in 1..Len(rssConfig[i].channels) }
                    : i \in 1..Len(rssConfig) }

\* claude-service.mjs:15
MAX_HISTORY_LENGTH == 20

\* The users of the assistant
Users == {"u1"}

Pool(url) == IF url = "ux" THEN ItemsX ELSE ItemsY

SeqsUpTo(S, n) == UNION { [1..k -> S] : k \in 0..n }

NoRepeat(s) == \A i, j \in 1..Len(s) : i # j => s[i] # s[j]

\* What a feed source can return: up to MaxItems distinct items, in any order
Contents(url) == { s \in SeqsUpTo(Pool(url), MaxItems) : NoRepeat(s) }

-----------------------------------------------------------------------------
(* Dates *)

\* new Date(pubDate).getTime() of a non-empty pubDate string
GetTime(d) == IF d = BadDate THEN NaN ELSE d

isNaN(x) == x = NaN

\* A date value as the code meets it: null, a string, a native Date, a
\* Firestore Timestamp (v = _seconds, frac = the milliseconds held in
\* _nanoseconds) or a value of another type
DateV(r, v, f) == [rep |-> r, v |-> v, frac |-> f]
NullDate == DateV("null", 0, 0)
StrDate(d) == DateV("string", d, 0)
DateObj(t) == DateV("Date", t, 0)
TimestampOf(ms) == DateV("Timestamp", ms \div MsPerSec, ms % MsPerSec)

\* The instant a date value denotes (NaN when it denotes none)
InstantOf(d) ==
    CASE d.rep = "string" -> GetTime(d.v)
      [] d.rep = "Date" -> d.v
      [] d.rep = "Timestamp" -> d.v * MsPerSec + d.frac
      [] OTHER -> NaN

\* feed-formatter.mjs:124-144, the conversion of one side to a Date
ToDate(d) ==
    CASE d.rep = "string" -> GetTime(d.v)
      [] d.rep = "Date" -> d.v
      [] d.rep = "Timestamp" -> d.v * MsPerSec
      [] OTHER -> NaN

\* feed-formatter.mjs:114-157
safeCompareDate(date1, date2) ==
    IF date1.rep = "null" \/ date2.rep = "null" THEN FALSE
    ELSE IF date1.rep = "other" \/ date2.rep = "other" THEN FALSE
    ELSE IF isNaN(ToDate(date1)) \/ isNaN(ToDate(date2)) THEN FALSE
    ELSE ToDate(date1) > ToDate(date2)

\* rss-database.mjs parseDate: a Date's instant, or NoDate for null
parseDate(dateStr) ==
    CASE dateStr.rep = "null" -> NoDate
      [] dateStr.rep = "string" ->
            IF isNaN(GetTime(dateStr.v)) THEN NoDate ELSE GetTime(dateStr.v)
      [] dateStr.rep = "Date" -> IF isNaN(dateStr.v) THEN NoDate ELSE dateStr.v
      [] dateStr.rep = "Timestamp" -> dateStr.v * MsPerSec
      [] OTHER -> NoDate

-----------------------------------------------------------------------------
(* Dedup filter *)

\* The watermark as processRssFeeds holds it (rss-service.mjs:133-137)
Mark(id, d, t) == [lastItemId |-> id, lastPublishDate |-> d, lastTitle |-> t]

NoMarkStale == Mark("g1", NoDate, Null)

\* rss-service.mjs:133-137: the watermark used when getRssStatus returns null
NoMark == Mark(Null, NoDate, Null)

\* lastProcessed.lastPublishDate is the Date parseDate returned, or null
MarkDate(lastProcessed) ==
    IF lastProcessed.lastPublishDate = NoDate THEN NullDate
    ELSE DateObj(lastProcessed.lastPublishDate)

\* item.pubDate is the feed's string, or undefined
ItemDate(item) ==
    IF item.pubDate = NoDate THEN NullDate ELSE StrDate(item.pubDate)

IsNewDateFirst(item, lastProcessed) ==
    IF item.pubDate # NoDate /\ lastProcessed.lastPublishDate # NoDate
    THEN safeCompareDate(ItemDate(item), MarkDate(lastProcessed))
    ELSE IF item.guid # Null /\ lastProcessed.lastItemId # Null
    THEN item.guid # lastProcessed.lastItemId
    ELSE IF item.title # Null /\ lastProcessed.lastTitle # Null
    THEN item.title # lastProcessed.lastTitle
    ELSE TRUE

IsNewNoTitle(item, lastProcessed) ==
    IF item.guid # Null /\ lastProcessed.lastItemId # Null
    THEN item.guid # lastProcessed.lastItemId
    ELSE IF item.pubDate # NoDate /\ lastProcessed.lastPublishDate # NoDate
    THEN safeCompareDate(ItemDate(item), MarkDate(lastProcessed))
    ELSE TRUE

\* rss-service.mjs:143-161
IsNew(item, lastProcessed) ==
    IF item.guid # Null /\ lastProcessed.lastItemId # Null
    THEN item.guid # lastProcessed.lastItemId
    ELSE IF item.pubDate # NoDate /\ lastProcessed.lastPublishDate # NoDate
    THEN safeCompareDate(ItemDate(item), MarkDate(lastProcessed))
    ELSE IF item.title # Null /\ lastProcessed.lastTitle # Null
    THEN item.title # lastProcessed.lastTitle
    ELSE TRUE

\* rss-service.mjs:140-166
FilterNew(items, lastProcessed) ==
    SelectSeq(items, LAMBDA item : IsNew(item, lastProcessed))

-----------------------------------------------------------------------------
(* Sort of the new items *)

\* The comparator of rss-service.mjs:169-184
Compare(a, b) ==
    LET dateA == IF a.pubDate # NoDate THEN GetTime(a.pubDate) ELSE 0
        dateB == IF b.pubDate # NoDate THEN GetTime(b.pubDate) ELSE 0
    IN  IF isNaN(dateA) \/ isNaN(dateB) THEN 0 ELSE dateA - dateB

\* Array.prototype.sort as Node's V8 runs it on an array shorter than 64: the
\* leading run is counted (and reversed when strictly descending), then the
\* rest is inserted by binary insertion.
RECURSIVE RunLength(_, _, _)
RunLength(s, idx, isDescending) ==
    IF idx > Len(s) THEN idx - 1
    ELSE LET order == Compare(s[idx], s[idx - 1])
         IN  IF (isDescending /\ order >= 0) \/ (~isDescending /\ order < 0)
             THEN idx - 1
             ELSE RunLength(s, idx + 1, isDescending)

ReverseRange(s, n) ==
    [i \in 1..Len(s) |-> IF i <= n THEN s[n + 1 - i] ELSE s[i]]

RECURSIVE InsertionPoint(_, _, _, _)
InsertionPoint(s, pivot, left, right) ==
    IF left >= right THEN left
    ELSE LET mid == left + ((right - left) \div 2)
         IN  IF Compare(pivot, s[mid]) < 0
             THEN InsertionPoint(s, pivot, left, mid)
             ELSE InsertionPoint(s, pivot, mid + 1, right)

RECURSIVE BinaryInsertionSort(_, _)
BinaryInsertionSort(s, start) ==
    IF start > Len(s) THEN s
    ELSE LET pivot == s[start]
             left == InsertionPoint(s, pivot, 1, start)
             moved == [p \in 1..Len(s) |->
                         IF p < left \/ p > start THEN s[p]
                         ELSE IF p = left THEN pivot ELSE s[p - 1]]
         IN  BinaryInsertionSort(moved, start + 1)

\* newItems.sort(...) of rss-service.mjs:169-184
SortNewItems(newItems) ==
    IF Len(newItems) < 2 THEN newItems
    ELSE LET isDescending == Compare(newItems[2], newItems[1]) < 0
             run == RunLength(newItems, 3, isDescending)
             made == IF isDescending THEN ReverseRange(newItems, run) ELSE newItems
         IN  BinaryInsertionSort(made, run + 1)

-----------------------------------------------------------------------------
(* Watermark store: the rss_status collection, one document per feed url *)

NoDoc ==
    [exists |-> FALSE, lastItemId |-> Null, lastPublishDate |-> NoDate,
     lastTitle |-> Null, createdAt |-> 0, updatedAt |-> 0]

WatermarkArgsFirst(newItems) ==
    LET lastItem == newItems[1]
    IN  [lastItemId |-> lastItem.guid,
         lastPublishDate |-> IF lastItem.pubDate # NoDate
                             THEN DateObj(GetTime(lastItem.pubDate))
                             ELSE NullDate,
         lastTitle |-> lastItem.title]

\* rss-service.mjs:227-232, the arguments of updateRssStatus
WatermarkArgs(newItems) ==
    LET lastItem == newItems[Len(newItems)]
    IN  [lastItemId |-> lastItem.guid,
         lastPublishDate |-> IF lastItem.pubDate # NoDate
                             THEN DateObj(GetTime(lastItem.pubDate))
                             ELSE NullDate,
         lastTitle |-> lastItem.title]

\* rss-database.mjs:83-92, the data updateRssStatus writes
StatusData(args, now) ==
    [lastItemId |-> args.lastItemId,
     lastPublishDate |-> parseDate(args.lastPublishDate),
     lastTitle |-> args.lastTitle,
     updatedAt |-> now]

WriteDocRestamp(doc, existed, data, now) ==
    [exists |-> TRUE, lastItemId |-> data.lastItemId,
     lastPublishDate |-> data.lastPublishDate, lastTitle |-> data.lastTitle,
     createdAt |-> now, updatedAt |-> data.updatedAt]

\* rss-database.mjs:99-108: update() keeps createdAt, set() stamps it
WriteDoc(doc, existed, data, now) ==
    [exists |-> TRUE, lastItemId |-> data.lastItemId,
     lastPublishDate |-> data.lastPublishDate, lastTitle |-> data.lastTitle,
     createdAt |-> IF existed THEN doc.createdAt ELSE now,
     updatedAt |-> data.updatedAt]

\* rss-database.mjs:138-150: Firestore hands the stored date back as a Timestamp
ReadStatus(doc) ==
    IF doc.exists
    THEN Mark(doc.lastItemId,
              IF doc.lastPublishDate = NoDate THEN NoDate
              ELSE parseDate(TimestampOf(doc.lastPublishDate)),
              doc.lastTitle)
    ELSE NoMark

-----------------------------------------------------------------------------
(* The pipeline *)

Procs == {1}
FeedIdx == 1..Len(rssConfig)

Idle ==
    [pc |-> "idle", fi |-> 0, feedData |-> <<>>, lastProcessed |-> NoMark,
     newItems |-> <<>>, ii |-> 0, ci |-> 0, webhook |-> 0, docExisted |-> FALSE,
     data |-> StatusData(WatermarkArgs(<<Item(Null, NoDate, Null)>>), 0)]

\* What is observed of a cycle: per cycle, per feed and per item
ItemMon == [item |-> 0, visited |-> {}, noHook |-> {},
            tried |-> [ch \in Channels |-> 0], ok |-> [ch \in Channels |-> 0]]
FeedMon == [read |-> "none", maxTs |-> NoDate, outOfOrder |-> FALSE, sends |-> 0,
            pairs |-> 0, partial |-> FALSE, sendAfterSet |-> FALSE,
            fbMismatch |-> FALSE, write |-> "none"]
CycleMon == [fetchFailed |-> {}, fetchedOk |-> {}, diffed |-> {}, hadNew |-> {},
             dispatched |-> {}, order |-> <<>>,
             setCalls |-> [i \in FeedIdx |-> 0], wroteOk |-> {},
             retry |-> [i \in FeedIdx |-> <<>>],
             undelivered |-> [i \in FeedIdx |-> {}]]
Mon0 == [c |-> CycleMon, f |-> FeedMon, i |-> ItemMon]
Prev0 == [wroteOk |-> {}, track |-> FALSE, retry |-> [i \in FeedIdx |-> <<>>],
          undelivered |-> [i \in FeedIdx |-> {}]]

DD0 == [op |-> "none", item |-> Item(Null, NoDate, Null), mark |-> NoMark,
        isNew |-> TRUE, date1 |-> NullDate, date2 |-> NullDate,
        later |-> FALSE, done |-> FALSE]

\* The bot before its start: the size of the configured feed list, the
\* client's ready event, the service, and the cycles counted as they start,
\* end and fail as a whole
Sched0 == [nFeeds |-> 0, readyFired |-> FALSE, boot |-> "login",
           svc |-> "none", ticks |-> 0, started |-> 0, ended |-> 0,
           failed |-> 0]

\* No call of getFavicon under way: the domain, the main domain computed
\* from it, the position in the fallback chain, the icon links of the root
\* page, the requests made so far and the URL returned
Fav0 == [op |-> "none", domain |-> <<>>, main |-> <<>>, again |-> <<>>,
         pc |-> "idle", k |-> 0, page |-> "none", links |-> <<>>, j |-> 0,
         probes |-> <<>>, pageAt |-> 0, result |-> <<>>]

\* The webhook cache of webhook-utils.mjs before any call: no entry, no
\* webhook listed, no call of getWebhookInChannel under way
Wh0 == [cache |-> <<>>, webhooks |-> <<>>, calls |-> 0, pc |-> "idle",
        channel |-> Null, hit |-> FALSE, listedOn |-> Null, seen |-> <<>>,
        createdOn |-> Null, webhook |-> 0, failed |-> {}]

\* No call of the sort or of the content block under way
Fmt0 == [op |-> "none", batch |-> <<>>, sorted |-> <<>>, snippet |-> <<>>,
         text |-> <<>>, block |-> FALSE, done |-> FALSE]

\* claude-service.mjs:33, 36: no conversation, no timer; apiKey is
\* getConfig().claudeApiKey being set; now is the time in milliseconds;
\* count, inflight, updated, reply and handed are history: the messages
\* arrived for the user, the API calls under way, the time of the last
\* update, the isReply of the last call and the list last handed to the API
Conv0 == [apiKey |-> TRUE,
          history |-> [u \in Users |-> <<>>],
          known |-> {},
          timeouts |-> [u \in Users |-> 0],
          timers |-> {},
          now |-> 0,
          count |-> [u \in Users |-> 0],
          inflight |-> [u \in Users |-> 0],
          updated |-> [u \in Users |-> 0],
          reply |-> FALSE,
          handed |-> <<>>]

Init ==
    /\ feedSrc \in { f \in [Urls -> UNION { Contents(u) : u \in Urls }] :
                        \A u \in Urls : f[u] \in Contents(u) }
    /\ rssStore = [u \in Urls |-> NoDoc]
    /\ clock = 0
    /\ webhookCache = [ch \in Channels |-> 0]
    /\ hooks = [ch \in Channels |-> 0]
    /\ service = "starting"
    /\ cyc = [p \in Procs |-> Idle]
    /\ cycles = 0
    /\ mon = [p \in Procs |-> Mon0]
    /\ prev = Prev0
    /\ dd = DD0
    /\ sched = Sched0
    /\ fav = Fav0
    /\ fmt = Fmt0
    /\ wh = Wh0
    /\ conv = Conv0

Feed(p) == rssConfig[cyc[p].fi]

Env == <<feedSrc, dd, sched, fav, fmt, wh, conv>>

\* rss-service.mjs:268-302: the service starts and awaits its first cycle
StartService(p) ==
    /\ service = "starting"
    /\ Len(rssConfig) > 0
    /\ cyc[p].pc = "idle"
    /\ service' = "firstRun"
    /\ cycles' = cycles + 1
    /\ cyc' = [cyc EXCEPT ![p] = [Idle EXCEPT !.pc = "start"]]
    /\ mon' = [mon EXCEPT ![p] = Mon0]
    /\ UNCHANGED <<rssStore, clock, webhookCache, hooks, prev, Env>>

TickGuarded(p) ==
    /\ service = "scheduled"
    /\ cycles < MaxCycles
    /\ \A q \in DOMAIN cyc : cyc[q].pc = "idle"
    /\ cycles' = cycles + 1
    /\ cyc' = [cyc EXCEPT ![p] = [Idle EXCEPT !.pc = "start"]]
    /\ mon' = [mon EXCEPT ![p] = Mon0]
    /\ UNCHANGED <<rssStore, clock, webhookCache, hooks, service, prev, Env>>

\* rss-service.mjs:305-308: a cron tick starts an invocation of
\* processRssFeeds (in slot p)
Tick(p) ==
    /\ service = "scheduled"
    /\ cycles < MaxCycles
    /\ cyc[p].pc = "idle"
    /\ cycles' = cycles + 1
    /\ cyc' = [cyc EXCEPT ![p] = [Idle EXCEPT !.pc = "start"]]
    /\ mon' = [mon EXCEPT ![p] = Mon0]
    /\ UNCHANGED <<rssStore, clock, webhookCache, hooks, service, prev, Env>>

\* The end of processRssFeeds; the end of the awaited first cycle lets
\* startRssService schedule cron (rss-service.mjs:302-308)
Finish(p) ==
    [cyc EXCEPT ![p] = Idle]

Scheduled == IF service = "firstRun" THEN "scheduled" ELSE service

\* rss-service.mjs:111-124: getAllRssStatus, the config check, the first feed
Start(p) ==
    /\ cyc[p].pc = "start"
    /\ cyc' = IF Len(rssConfig) = 0 THEN Finish(p)
              ELSE [cyc EXCEPT ![p].pc = "fetch", ![p].fi = 1]
    /\ service' = IF Len(rssConfig) = 0 THEN Scheduled ELSE service
    /\ UNCHANGED <<rssStore, clock, webhookCache, hooks, cycles, mon, prev, Env>>

\* The position after the try block of one feed (rss-service.mjs:124, 248-254)
AfterFeed(p) == "next"

AfterFetchErrorAbort(p) == "done"

AfterFetchErrorRethrow(p) == "idle"

\* rss-service.mjs:248-253: the per-feed catch; the loop goes on
AfterFetchError(p) == AfterFeed(p)

\* rss-service.mjs:129: parser.parseURL(feed.url) returns the feed's items
FetchOk(p) ==
    /\ cyc[p].pc = "fetch"
    /\ cyc' = [cyc EXCEPT ![p].pc = "status",
                          ![p].feedData = feedSrc[Feed(p).url]]
    /\ mon' = [mon EXCEPT ![p].c.fetchedOk = @ \cup {cyc[p].fi},
                          ![p].c.order = Append(@, cyc[p].fi)]
    /\ UNCHANGED <<rssStore, clock, webhookCache, hooks, service, cycles, prev, Env>>

FetchFailReset(p) ==
    /\ cyc[p].pc = "fetch"
    /\ cyc' = [cyc EXCEPT ![p].pc = AfterFetchError(p)]
    /\ mon' = [mon EXCEPT ![p].c.fetchFailed = @ \cup {cyc[p].fi},
                          ![p].c.order = Append(@, cyc[p].fi)]
    /\ rssStore' = [rssStore EXCEPT ![Feed(p).url] = NoDoc]
    /\ UNCHANGED <<clock, webhookCache, hooks, service, cycles, prev, Env>>

\* rss-service.mjs:129, 248-253: parser.parseURL throws, the feed is skipped
FetchFail(p) ==
    /\ cyc[p].pc = "fetch"
    /\ cyc' = [cyc EXCEPT ![p].pc = AfterFetchError(p)]
    /\ mon' = [mon EXCEPT ![p].c.fetchFailed = @ \cup {cyc[p].fi},
                          ![p].c.order = Append(@, cyc[p].fi)]
    /\ UNCHANGED <<rssStore, clock, webhookCache, hooks, service, cycles, prev, Env>>

\* rss-service.mjs:133-186: getRssStatus, then the dedup filter and the sort.
\* readOk = FALSE is getRssStatus catching a store error and returning null.
GetStatus(p) ==
    /\ cyc[p].pc = "status"
    /\ \E readOk \in BOOLEAN :
         LET lastProcessed == IF readOk THEN ReadStatus(rssStore[Feed(p).url])
                              ELSE NoMark
             newItems == SortNewItems(FilterNew(cyc[p].feedData, lastProcessed))
         IN  /\ cyc' = [cyc EXCEPT ![p].pc = "favicon",
                                   ![p].lastProcessed = lastProcessed,
                                   ![p].newItems = newItems]
             /\ mon' = [mon EXCEPT ![p].f.read =
                                       IF ~readOk THEN "failed"
                                       ELSE IF rssStore[Feed(p).url].exists
                                       THEN "found" ELSE "absent",
                                   ![p].c.diffed = @ \cup {cyc[p].fi},
                                   ![p].c.hadNew = IF newItems # <<>>
                                                   THEN @ \cup {cyc[p].fi} ELSE @]
    /\ UNCHANGED <<rssStore, clock, webhookCache, hooks, service, cycles, prev, Env>>

\* The first (item, channel) pair of the dispatch loop, or the update when
\* there is none (rss-service.mjs:202, 206)
FirstPair(p) ==
    IF Len(cyc[p].newItems) > 0 /\ Len(Feed(p).channels) > 0
    THEN [pc |-> "resolve", ii |-> 1, ci |-> 1]
    ELSE [pc |-> "update", ii |-> 0, ci |-> 0]

\* rss-service.mjs:189-199: the icon of the feed (its result only decorates)
Favicon(p) ==
    /\ cyc[p].pc = "favicon"
    /\ cyc' = [cyc EXCEPT ![p].pc = FirstPair(p).pc, ![p].ii = FirstPair(p).ii,
                          ![p].ci = FirstPair(p).ci]
    /\ UNCHANGED <<rssStore, clock, webhookCache, hooks, service, cycles, mon, prev, Env>>

NextPairBreak(p) ==
    IF cyc[p].ii < Len(cyc[p].newItems)
    THEN [pc |-> "resolve", ii |-> cyc[p].ii + 1, ci |-> 1]
    ELSE [pc |-> "update", ii |-> cyc[p].ii, ci |-> cyc[p].ci]

NextPairUpdateEach(p) ==
    IF cyc[p].ci < Len(Feed(p).channels)
    THEN [pc |-> "resolve", ii |-> cyc[p].ii, ci |-> cyc[p].ci + 1]
    ELSE [pc |-> "update", ii |-> cyc[p].ii, ci |-> cyc[p].ci]

\* rss-service.mjs:202-223: the pair after (ii, ci), or the update after the last
NextPair(p) ==
    IF cyc[p].ci < Len(Feed(p).channels)
    THEN [pc |-> "resolve", ii |-> cyc[p].ii, ci |-> cyc[p].ci + 1]
    ELSE IF cyc[p].ii < Len(cyc[p].newItems)
    THEN [pc |-> "resolve", ii |-> cyc[p].ii + 1, ci |-> 1]
    ELSE [pc |-> "update", ii |-> cyc[p].ii, ci |-> cyc[p].ci]

AfterFailureAbort(p) ==
    [pc |-> "update", ii |-> cyc[p].ii, ci |-> cyc[p].ci]

\* The step to the following pair after a destination failed or was skipped
AfterFailure(p) == NextPair(p)

Goto(p, pos) ==
    [cyc EXCEPT ![p].pc = pos.pc, ![p].ii = pos.ii, ![p].ci = pos.ci]

Channel(p) == Feed(p).channels[cyc[p].ci]

\* The item observations, started afresh when the loop enters a new item
ItemMonAt(p) ==
    IF mon[p].i.item = cyc[p].ii THEN mon[p].i
    ELSE [ItemMon EXCEPT !.item = cyc[p].ii]

\* The observed item had a destination whose every send failed
FailedDest(p) ==
    \E a \in Channels : mon[p].i.tried[a] > 0 /\ mon[p].i.ok[a] = 0

\* ... and another destination that received it
FanoutCase(p) ==
    \E a, b \in Channels :
        /\ mon[p].i.tried[a] > 0 /\ mon[p].i.ok[a] = 0
        /\ mon[p].i.ok[b] > 0

\* The items of the feed that a destination did not receive, with the current
\* item when its pair failed (history, kept in the runs of SpecRetry)
Undelivered(p, failed) ==
    IF prev.track /\ failed
    THEN mon[p].c.undelivered[cyc[p].fi] \cup {cyc[p].newItems[cyc[p].ii]}
    ELSE mon[p].c.undelivered[cyc[p].fi]

\* rss-service.mjs:208-212 and webhook-utils.mjs:16-18: the channel is
\* fetched and the cache is looked up.  got = "throw": channels.fetch throws;
\* "none": it returns no channel; "channel": it returns the channel.
Resolve(p) ==
    /\ cyc[p].pc = "resolve"
    /\ \E got \in {"throw", "none", "channel"} :
         /\ cyc' = IF got # "channel" THEN Goto(p, AfterFailure(p))
                   ELSE IF webhookCache[Channel(p)] # 0
                   THEN [cyc EXCEPT ![p].pc = "send",
                                    ![p].webhook = webhookCache[Channel(p)]]
                   ELSE [cyc EXCEPT ![p].pc = "listHooks"]
         /\ mon' = [mon EXCEPT ![p].i = [ItemMonAt(p) EXCEPT
                                           !.visited = @ \cup {Channel(p)}],
                               ![p].f.pairs = @ + 1,
                               ![p].f.partial = @ \/ FailedDest(p),
                               ![p].c.undelivered[cyc[p].fi] =
                                   Undelivered(p, got # "channel")]
    /\ UNCHANGED <<rssStore, clock, webhookCache, hooks, service, cycles, prev, Env>>

\* getWebhookInChannel returned null for the current pair (history)
NoHook(p) ==
    [mon EXCEPT ![p].i.noHook = @ \cup {Channel(p)},
                ![p].c.undelivered[cyc[p].fi] = Undelivered(p, TRUE)]

\* webhook-utils.mjs:29-43: fetchWebhooks answers; a webhook with a token is
\* cached and used, otherwise one is to be created.  A throw gives null.
ListHooks(p) ==
    /\ cyc[p].pc = "listHooks"
    /\ \E listed \in BOOLEAN :
         IF ~listed
         THEN /\ cyc' = Goto(p, AfterFailure(p))
              /\ mon' = NoHook(p)
              /\ UNCHANGED webhookCache
         ELSE IF hooks[Channel(p)] > 0
         THEN /\ cyc' = [cyc EXCEPT ![p].pc = "send", ![p].webhook = 1]
              /\ webhookCache' = [webhookCache EXCEPT ![Channel(p)] = 1]
              /\ UNCHANGED mon
         ELSE /\ cyc' = [cyc EXCEPT ![p].pc = "createHook"]
              /\ UNCHANGED <<webhookCache, mon>>
    /\ UNCHANGED <<rssStore, clock, hooks, service, cycles, prev, Env>>

\* webhook-utils.mjs:30-43: createWebhook answers; the new webhook is cached
CreateHook(p) ==
    /\ cyc[p].pc = "createHook"
    /\ \E created \in BOOLEAN :
         IF created
         THEN /\ hooks' = [hooks EXCEPT ![Channel(p)] = @ + 1]
              /\ webhookCache' = [webhookCache EXCEPT
                                    ![Channel(p)] = hooks[Channel(p)] + 1]
              /\ cyc' = [cyc EXCEPT ![p].pc = "send",
                                    ![p].webhook = hooks[Channel(p)] + 1]
              /\ UNCHANGED mon
         ELSE /\ cyc' = Goto(p, AfterFailure(p))
              /\ mon' = NoHook(p)
              /\ UNCHANGED <<hooks, webhookCache>>
    /\ UNCHANGED <<rssStore, clock, service, cycles, prev, Env>>

\* The outcomes of sendRssToWebhook (rss-service.mjs:49-102): the primary
\* path fails before its send (render, avatar) or at its send, or succeeds;
\* after a failure the fallback send succeeds or fails.
SendOutcomes ==
    { [primary |-> pr, fallback |-> fb] :
        pr \in {"ok", "renderFail", "sendFail"}, fb \in {"ok", "fail", "unused"} }

NeedsFallbackAlways(out) == TRUE

\* rss-service.mjs:89-100: the fallback is sent when the primary path threw
NeedsFallback(out) == out.primary # "ok"

Attempts(out) ==
    (IF out.primary = "renderFail" THEN 0 ELSE 1)
    + (IF NeedsFallback(out) THEN 1 ELSE 0)

Delivered(out) ==
    (IF out.primary = "ok" THEN 1 ELSE 0)
    + (IF NeedsFallback(out) /\ out.fallback = "ok" THEN 1 ELSE 0)

\* The parsed publish instant of an item, NoDate when it has none
Parsed(item) ==
    IF item.pubDate = NoDate \/ isNaN(GetTime(item.pubDate)) THEN NoDate
    ELSE GetTime(item.pubDate)

AfterSendBreak(p, out) ==
    IF Delivered(out) = 0 THEN NextPairBreak(p) ELSE NextPair(p)

\* rss-service.mjs:98-100, 214-222: whatever the sends did, sendRssToWebhook
\* returns and the loop takes the following pair
AfterSend(p, out) == NextPair(p)

\* rss-service.mjs:213 with 49-102: one item is sent to one webhook
Send(p) ==
    /\ cyc[p].pc = "send"
    /\ \E out \in SendOutcomes :
         /\ (out.fallback = "unused") <=> ~NeedsFallback(out)
         /\ LET item == cyc[p].newItems[cyc[p].ii]
                ch == Channel(p)
                ts == Parsed(item)
            IN  mon' = [mon EXCEPT
                  ![p].i.tried[ch] = @ + Attempts(out),
                  ![p].i.ok[ch] = @ + Delivered(out),
                  ![p].f.sends = IF Attempts(out) > 0 THEN 1 ELSE @,
                  ![p].f.fbMismatch =
                      @ \/ ((out.fallback # "unused") # (out.primary # "ok")),
                  ![p].f.sendAfterSet =
                      @ \/ (Attempts(out) > 0 /\ mon[p].c.setCalls[cyc[p].fi] > 0),
                  ![p].f.outOfOrder =
                      @ \/ (Attempts(out) > 0 /\ ts # NoDate /\ ts < mon[p].f.maxTs),
                  ![p].f.maxTs =
                      IF Attempts(out) > 0 /\ ts > @ THEN ts ELSE @,
                  ![p].c.undelivered[cyc[p].fi] =
                      Undelivered(p, Delivered(out) = 0)]
         /\ cyc' = Goto(p, AfterSend(p, out))
    /\ UNCHANGED <<rssStore, clock, webhookCache, hooks, service, cycles, prev, Env>>

\* The batch whose watermark write failed, when it was classified against
\* the record as stored (history, kept in the runs of SpecRetry)
Unsaved(p) ==
    IF prev.track /\ mon[p].f.read # "failed" THEN cyc[p].newItems ELSE <<>>

AfterSetNoAwait(p, readOk) == AfterFeed(p)

\* rss-service.mjs:236-244: updateRssStatus is awaited: its write comes before
\* the feed's try block is left; a throw of its read leaves the block at once
AfterSet(p, readOk) == IF readOk THEN "updWrite" ELSE AfterFeed(p)

UpdateTouch(p) ==
    /\ cyc[p].pc = "update"
    /\ IF Len(cyc[p].newItems) = 0
       THEN /\ cyc' = [cyc EXCEPT ![p].pc = AfterFeed(p)]
            /\ mon' = [mon EXCEPT ![p].c.dispatched = @ \cup {cyc[p].fi}]
            /\ clock' = clock + 1
            /\ rssStore' = [rssStore EXCEPT ![Feed(p).url].updatedAt = clock + 1]
       ELSE /\ \E readOk \in BOOLEAN :
                 /\ clock' = clock + 1
                 /\ cyc' = [cyc EXCEPT
                       ![p].pc = AfterSet(p, readOk),
                       ![p].docExisted = rssStore[Feed(p).url].exists,
                       ![p].data = StatusData(WatermarkArgs(cyc[p].newItems), clock')]
                 /\ mon' = [mon EXCEPT
                       ![p].c.setCalls[cyc[p].fi] = @ + 1,
                       ![p].c.dispatched = @ \cup {cyc[p].fi},
                       ![p].f.partial = @ \/ FailedDest(p),
                       ![p].c.retry[cyc[p].fi] = IF readOk THEN @ ELSE Unsaved(p),
                       ![p].f.write = IF readOk THEN "pending" ELSE "failed"]
            /\ UNCHANGED rssStore
    /\ UNCHANGED <<webhookCache, hooks, service, cycles, prev, Env>>

\* rss-service.mjs:226-247 and rss-database.mjs:70-98: with new items,
\* updateRssStatus is called and reads the document; a throw of that read is
\* caught at rss-service.mjs:242.
Update(p) ==
    /\ cyc[p].pc = "update"
    /\ IF Len(cyc[p].newItems) = 0
       THEN /\ cyc' = [cyc EXCEPT ![p].pc = AfterFeed(p)]
            /\ mon' = [mon EXCEPT ![p].c.dispatched = @ \cup {cyc[p].fi}]
            /\ UNCHANGED clock
       ELSE \E readOk \in BOOLEAN :
              /\ clock' = clock + 1
              /\ cyc' = [cyc EXCEPT
                    ![p].pc = AfterSet(p, readOk),
                    ![p].docExisted = rssStore[Feed(p).url].exists,
                    ![p].data = StatusData(WatermarkArgs(cyc[p].newItems), clock')]
              /\ mon' = [mon EXCEPT
                    ![p].c.setCalls[cyc[p].fi] = @ + 1,
                    ![p].c.dispatched = @ \cup {cyc[p].fi},
                    ![p].f.partial = @ \/ FailedDest(p),
                    ![p].c.retry[cyc[p].fi] = IF readOk THEN @ ELSE Unsaved(p),
                    ![p].f.write = IF readOk THEN "pending" ELSE "failed"]
    /\ UNCHANGED <<rssStore, webhookCache, hooks, service, cycles, prev, Env>>

UpdWriteTorn(p) ==
    /\ cyc[p].pc = "updWrite"
    /\ \E writeOk \in BOOLEAN :
         /\ rssStore' = [rssStore EXCEPT ![Feed(p).url] =
                           WriteDoc(@, cyc[p].docExisted, cyc[p].data,
                                        cyc[p].data.updatedAt)]
         /\ mon' = [mon EXCEPT
               ![p].f.write = IF writeOk THEN "ok" ELSE "failed",
               ![p].c.wroteOk = IF writeOk THEN @ \cup {cyc[p].fi} ELSE @,
               ![p].c.retry[cyc[p].fi] = IF writeOk THEN @ ELSE Unsaved(p)]
    /\ cyc' = [cyc EXCEPT ![p].pc = AfterFeed(p)]
    /\ UNCHANGED <<clock, webhookCache, hooks, service, cycles, prev, Env>>

\* rss-database.mjs:99-118: docRef.update or docRef.set answers; createdAt
\* was stamped when the read of the document returned
UpdWrite(p) ==
    /\ cyc[p].pc = "updWrite"
    /\ \E writeOk \in BOOLEAN :
         /\ rssStore' = IF writeOk
                        THEN [rssStore EXCEPT ![Feed(p).url] =
                                WriteDoc(@, cyc[p].docExisted, cyc[p].data,
                                        cyc[p].data.updatedAt)]
                        ELSE rssStore
         /\ mon' = [mon EXCEPT
               ![p].f.write = IF writeOk THEN "ok" ELSE "failed",
               ![p].c.wroteOk = IF writeOk THEN @ \cup {cyc[p].fi} ELSE @,
               ![p].c.retry[cyc[p].fi] = IF writeOk THEN @ ELSE Unsaved(p)]
    /\ cyc' = [cyc EXCEPT ![p].pc = AfterFeed(p)]
    /\ UNCHANGED <<clock, webhookCache, hooks, service, cycles, prev, Env>>

\* rss-service.mjs:124, 254-261: the loop goes to the next feed, or the cycle ends
NextFeed(p) ==
    /\ cyc[p].pc = "next"
    /\ cyc' = IF cyc[p].fi < Len(rssConfig)
              THEN [cyc EXCEPT ![p].pc = "fetch", ![p].fi = @ + 1,
                               ![p].feedData = <<>>, ![p].newItems = <<>>,
                               ![p].lastProcessed = NoMark, ![p].ii = 0,
                               ![p].ci = 0, ![p].webhook = 0,
                               ![p].docExisted = FALSE, ![p].data = Idle.data]
              ELSE [Finish(p) EXCEPT ![p].pc = "done"]
    /\ mon' = [mon EXCEPT ![p].f = FeedMon, ![p].i = ItemMon]
    /\ UNCHANGED <<rssStore, clock, webhookCache, hooks, service, cycles, prev, Env>>

\* processRssFeeds returns (rss-service.mjs:261)
Return(p) ==
    /\ cyc[p].pc = "done"
    /\ cyc' = Finish(p)
    /\ service' = Scheduled
    /\ prev' = [prev EXCEPT !.wroteOk = mon[p].c.wroteOk,
                            !.retry = mon[p].c.retry,
                            !.undelivered =
                                [i \in FeedIdx |->
                                    IF i \in mon[p].c.wroteOk
                                    THEN mon[p].c.undelivered[i] ELSE {}]]
    /\ mon' = [mon EXCEPT ![p] = Mon0]
    /\ UNCHANGED <<rssStore, clock, webhookCache, hooks, cycles, Env>>

Next ==
    \E p \in Procs :
        \/ StartService(p)
        \/ Tick(p)
        \/ Start(p)
        \/ FetchOk(p)
        \/ FetchFail(p)
        \/ GetStatus(p)
        \/ Favicon(p)
        \/ Resolve(p)
        \/ ListHooks(p)
        \/ CreateHook(p)
        \/ Send(p)
        \/ Update(p)
        \/ UpdWrite(p)
        \/ NextFeed(p)
        \/ Return(p)

Spec == Init /\ [][Next]_vars

-----------------------------------------------------------------------------
(* The dedup functions on their own: one classification of an item against  *)
(* a stored watermark, or one date comparison, per behaviour (SpecDedup)     *)

Guids == {Null, "g1", "g2"}
Titles == {Null, "a", "b"}

\* Any item a feed can carry, and any watermark a document can hold
DedupItems ==
    { Item(g, d, t) : g \in Guids, d \in Instants \cup {NoDate, BadDate},
                      t \in Titles }
DedupMarks ==
    { Mark(g, d, t) : g \in Guids, d \in Instants \cup {NoDate}, t \in Titles }

\* The date values safeCompareDate can be handed
DateValues ==
    {NullDate, DateV("other", 0, 0)}
        \cup { StrDate(d) : d \in Instants \cup {BadDate} }
        \cup { DateObj(t) : t \in Instants \cup {NaN} }
        \cup { TimestampOf(ms) : ms \in Instants }

\* The rss_status document that holds a watermark
DocOf(mark) ==
    [NoDoc EXCEPT !.exists = TRUE, !.lastItemId = mark.lastItemId,
                  !.lastPublishDate = mark.lastPublishDate,
                  !.lastTitle = mark.lastTitle]

InitDedup ==
    /\ feedSrc = [u \in Urls |-> <<>>]
    /\ rssStore = [u \in Urls |-> NoDoc]
    /\ clock = 0
    /\ webhookCache = [ch \in Channels |-> 0]
    /\ hooks = [ch \in Channels |-> 0]
    /\ service = "starting"
    /\ cyc = [p \in Procs |-> Idle]
    /\ cycles = 0
    /\ mon = [p \in Procs |-> Mon0]
    /\ prev = Prev0
    /\ sched = Sched0
    /\ fav = Fav0
    /\ fmt = Fmt0
    /\ wh = Wh0
    /\ conv = Conv0
    /\ dd \in { [DD0 EXCEPT !.op = "isNew", !.item = i, !.mark = m] :
                    i \in DedupItems, m \in DedupMarks }
              \cup { [DD0 EXCEPT !.op = "compare", !.date1 = a, !.date2 = b] :
                        a \in DateValues, b \in DateValues }

\* rss-service.mjs:133-161: the stored watermark is read and one item classified
Classify ==
    /\ dd.op = "isNew" /\ ~dd.done
    /\ dd' = [dd EXCEPT !.isNew = IsNew(dd.item, ReadStatus(DocOf(dd.mark))),
                         !.done = TRUE]
    /\ UNCHANGED <<feedSrc, rssStore, clock, webhookCache, hooks, service, cyc,
                   cycles, mon, prev, sched, fav, fmt, wh, conv>>

\* feed-formatter.mjs:114-157: one call of safeCompareDate
CompareDates ==
    /\ dd.op = "compare" /\ ~dd.done
    /\ dd' = [dd EXCEPT !.later = safeCompareDate(dd.date1, dd.date2),
                         !.done = TRUE]
    /\ UNCHANGED <<feedSrc, rssStore, clock, webhookCache, hooks, service, cyc,
                   cycles, mon, prev, sched, fav, fmt, wh, conv>>

NextDedup == Classify \/ CompareDates

SpecDedup == InitDedup /\ [][NextDedup]_vars

-----------------------------------------------------------------------------
(* The pipeline with the batches of failed watermark writes remembered from *)
(* one cycle to the next (SpecRetry); the first feed carries up to two       *)
(* items, the second feed one.                                               *)

InitRetry ==
    /\ feedSrc \in { f \in [Urls -> UNION { Contents(u) : u \in Urls }] :
                        /\ \A u \in Urls : f[u] \in Contents(u)
                        /\ Len(f["ux"]) <= 2
                        /\ f["uy"] # <<>> }
    /\ rssStore = [u \in Urls |-> NoDoc]
    /\ clock = 0
    /\ webhookCache = [ch \in Channels |-> 0]
    /\ hooks = [ch \in Channels |-> 0]
    /\ service = "starting"
    /\ cyc = [p \in Procs |-> Idle]
    /\ cycles = 0
    /\ mon = [p \in Procs |-> Mon0]
    /\ prev = [Prev0 EXCEPT !.track = TRUE]
    /\ dd = DD0
    /\ sched = Sched0
    /\ fav = Fav0
    /\ fmt = Fmt0
    /\ wh = Wh0
    /\ conv = Conv0

SpecRetry == InitRetry /\ [][Next]_vars

-----------------------------------------------------------------------------
(* Termination of a cycle (SpecLive).  Every await of processRssFeeds is    *)
(* on a call that returns or throws, and the event loop resumes the          *)
(* function when it does: the steps of a started cycle are weakly fair.      *)
(* Each feed carries at most one item.                                       *)

InitLive ==
    /\ feedSrc \in { f \in [Urls -> UNION { Contents(u) : u \in Urls }] :
                        \A u \in Urls : f[u] \in Contents(u) /\ Len(f[u]) <= 1 }
    /\ rssStore = [u \in Urls |-> NoDoc]
    /\ clock = 0
    /\ webhookCache = [ch \in Channels |-> 0]
    /\ hooks = [ch \in Channels |-> 0]
    /\ service = "starting"
    /\ cyc = [p \in Procs |-> Idle]
    /\ cycles = 0
    /\ mon = [p \in Procs |-> Mon0]
    /\ prev = Prev0
    /\ dd = DD0
    /\ sched = Sched0
    /\ fav = Fav0
    /\ fmt = Fmt0
    /\ wh = Wh0
    /\ conv = Conv0

\* rss-service.mjs:108-261: the continuation of a started processRssFeeds
Resume(p) ==
    \/ Start(p)
    \/ FetchOk(p)
    \/ FetchFail(p)
    \/ GetStatus(p)
    \/ Favicon(p)
    \/ Resolve(p)
    \/ ListHooks(p)
    \/ CreateHook(p)
    \/ Send(p)
    \/ Update(p)
    \/ UpdWrite(p)
    \/ NextFeed(p)
    \/ Return(p)

SpecLive == InitLive /\ [][Next]_vars /\ \A p \in Procs : WF_vars(Resume(p))

-----------------------------------------------------------------------------
(* Overlapping cycles (SpecOverlap).  cron starts a cycle at every tick,    *)
(* whether or not an earlier cycle is still awaiting a call                  *)
(* (rss-service.mjs:305-308); two invocation slots show the overlap.  The    *)
(* behaviours start after a first cycle that left the store and the cache    *)
(* empty, with one item in the first feed.                                   *)

Overlapping == {1, 2}

InitOverlap ==
    /\ feedSrc = [u \in Urls |-> IF u = "ux" THEN <<Item("g1", 3000, "a")>>
                                 ELSE <<>>]
    /\ rssStore = [u \in Urls |-> NoDoc]
    /\ clock = 0
    /\ webhookCache = [ch \in Channels |-> 0]
    /\ hooks = [ch \in Channels |-> 0]
    /\ service = "scheduled"
    /\ cyc = [p \in Overlapping |-> Idle]
    /\ cycles = 0
    /\ mon = [p \in Overlapping |-> Mon0]
    /\ prev = Prev0
    /\ dd = DD0
    /\ sched = Sched0
    /\ fav = Fav0
    /\ fmt = Fmt0
    /\ wh = Wh0
    /\ conv = Conv0

NextOverlap ==
    \E p \in Overlapping :
        \/ Tick(p)
        \/ Start(p)
        \/ FetchOk(p)
        \/ FetchFail(p)
        \/ GetStatus(p)
        \/ Favicon(p)
        \/ Resolve(p)
        \/ ListHooks(p)
        \/ CreateHook(p)
        \/ Send(p)
        \/ Update(p)
        \/ UpdWrite(p)
        \/ NextFeed(p)
        \/ Return(p)

SpecOverlap == InitOverlap /\ [][NextOverlap]_vars

-----------------------------------------------------------------------------
(* The start of the bot and the scheduler (SpecSched): startBot of          *)
(* index.mjs, startDiscordClient of discord/client.mjs, startRssService and *)
(* the cron callback of rss-service.mjs.  A cycle is taken as a whole: it   *)
(* starts, and it ends normally or through its outer catch.                 *)

Pipeline == <<feedSrc, rssStore, clock, webhookCache, hooks, service, cyc,
              cycles, mon, prev, dd, fav, fmt, wh, conv>>

\* config.mjs:77-90: the feed list is built once, from the environment
InitSched ==
    /\ feedSrc = [u \in Urls |-> <<>>]
    /\ rssStore = [u \in Urls |-> NoDoc]
    /\ clock = 0
    /\ webhookCache = [ch \in Channels |-> 0]
    /\ hooks = [ch \in Channels |-> 0]
    /\ service = "starting"
    /\ cyc = [p \in Procs |-> Idle]
    /\ cycles = 0
    /\ mon = [p \in Procs |-> Mon0]
    /\ prev = Prev0
    /\ dd = DD0
    /\ sched \in { [Sched0 EXCEPT !.nFeeds = n] : n \in 0..MaxFeeds }
    /\ fav = Fav0
    /\ fmt = Fmt0
    /\ wh = Wh0
    /\ conv = Conv0

\* The client emits its ready event, once, at some moment after login began
\* (discord/client.mjs:45)
ReadyEvent ==
    /\ ~sched.readyFired
    /\ sched' = [sched EXCEPT !.readyFired = TRUE,
                              !.boot = IF sched.boot = "registered"
                                       THEN "handler" ELSE @]
    /\ UNCHANGED Pipeline

\* index.mjs:13-16: startDiscordClient has resolved and the ready handler is
\* registered with client.once; an event emitted before that is not seen
Register ==
    /\ sched.boot = "login"
    /\ sched' = [sched EXCEPT !.boot = IF sched.readyFired THEN "missed"
                                       ELSE "registered"]
    /\ UNCHANGED Pipeline

\* index.mjs:16-21 and rss-service.mjs:268-302: the handler calls
\* startRssService, which returns false on an empty feed list and otherwise
\* calls processRssFeeds for the first cycle
StartRssService ==
    /\ sched.boot = "handler"
    /\ sched' = IF sched.nFeeds = 0
                THEN [sched EXCEPT !.boot = "done", !.svc = "refused"]
                ELSE [sched EXCEPT !.boot = "done", !.svc = "firstCycle",
                                   !.started = 1]
    /\ UNCHANGED Pipeline

AfterCycleStop(svc, failed) ==
    IF failed THEN "stopped"
    ELSE IF svc = "firstCycle" THEN "scheduled" ELSE svc

\* rss-service.mjs:302-308: cron is scheduled when the awaited first cycle
\* has returned, however it ended; the end of a later cycle changes nothing
AfterCycle(svc, failed) ==
    IF svc = "firstCycle" THEN "scheduled" ELSE svc

\* rss-service.mjs:255-261: a cycle ends, normally or through the outer
\* catch, which logs; processRssFeeds returns either way
CycleEnd ==
    /\ sched.ended < sched.started
    /\ \E failed \in BOOLEAN :
         sched' = [sched EXCEPT
                     !.ended = @ + 1,
                     !.failed = IF failed THEN @ + 1 ELSE @,
                     !.svc = AfterCycle(@, failed)]
    /\ UNCHANGED Pipeline

CronTickSkip ==
    /\ sched.svc = "scheduled"
    /\ sched.ticks < MaxTicks
    /\ sched' = [sched EXCEPT
                   !.ticks = @ + 1,
                   !.started = IF sched.ended < sched.started THEN @ ELSE @ + 1]
    /\ UNCHANGED Pipeline

\* rss-service.mjs:305-308: at a tick the callback calls processRssFeeds
CronTick ==
    /\ sched.svc = "scheduled"
    /\ sched.ticks < MaxTicks
    /\ sched' = [sched EXCEPT !.ticks = @ + 1, !.started = @ + 1]
    /\ UNCHANGED Pipeline

NextSched ==
    \/ ReadyEvent
    \/ Register
    \/ StartRssService
    \/ CycleEnd
    \/ CronTick

SpecSched == InitSched /\ [][NextSched]_vars

-----------------------------------------------------------------------------
(* The icon resolver on its own (SpecFavicon): removeSubdomain and          *)
(* getFavicon of services/rss/favicon-utils.mjs, in the variant that probes  *)
(* the site and in the variant that asks a logo service.  A string is a      *)
(* sequence of tokens; the token "." is the only one that holds a dot.  The  *)
(* domain is the hostname extractDomain took from a URL.                     *)

Dot == "."
Tokens == {"www", "example", "co", "jp", "uk", "com", "org", "10", "1234"}

\* The number of decimal digits of a token made of digits, 0 for any other
Digits(t) == CASE t = "10" -> 2 [] t = "1234" -> 4 [] OTHER -> 0

\* The labels of a hostname: one token each, or empty (a trailing dot)
DomainLabels == { <<t>> : t \in Tokens } \cup { <<>> }

RECURSIVE SplitFrom(_, _, _)
SplitFrom(s, cur, acc) ==
    IF s = <<>> THEN Append(acc, cur)
    ELSE IF Head(s) = Dot THEN SplitFrom(Tail(s), <<>>, Append(acc, cur))
    ELSE SplitFrom(Tail(s), Append(cur, Head(s)), acc)

\* domain.split('.')
Split(s) == SplitFrom(s, <<>>, <<>>)

\* parts.join('.')
RECURSIVE Join(_)
Join(parts) ==
    IF parts = <<>> THEN <<>>
    ELSE IF Len(parts) = 1 THEN parts[1]
    ELSE parts[1] \o <<Dot>> \o Join(Tail(parts))

\* parts.slice(-n)
SliceLast(parts, n) ==
    IF Len(parts) <= n THEN parts
    ELSE SubSeq(parts, Len(parts) - n + 1, Len(parts))

RECURSIVE DigitsOf(_)
DigitsOf(part) ==
    IF part = <<>> THEN 0 ELSE Digits(Head(part)) + DigitsOf(Tail(part))

\* /^\d{1,3}\.\d{1,3}\.\d{1,3}\.\d{1,3}$/.test(domain)
IsIpAddress(domain) ==
    LET parts == Split(domain)
    IN  /\ Len(parts) = 4
        /\ \A i \in 1..4 :
              /\ \A n \in 1..Len(parts[i]) : Digits(parts[i][n]) > 0
              /\ DigitsOf(parts[i]) \in 1..3

specialTlds ==
    { <<"co", Dot, "jp">>, <<"co", Dot, "uk">>, <<"com", Dot, "au">>,
      <<"or", Dot, "jp">>, <<"ne", Dot, "jp">>, <<"ac", Dot, "jp">>,
      <<"go", Dot, "jp">>, <<"org", Dot, "uk">>, <<"net", Dot, "uk">>,
      <<"ac", Dot, "uk">> }

removeSubdomainKeepTwo(domain) ==
    LET parts == Split(domain)
    IN  IF IsIpAddress(domain) THEN domain
        ELSE IF Len(parts) <= 2 THEN domain
        ELSE Join(SliceLast(parts, 2))

\* favicon-utils.mjs:11-42
removeSubdomain(domain) ==
    LET parts == Split(domain)
    IN  IF IsIpAddress(domain) THEN domain
        ELSE IF Len(parts) <= 2 THEN domain
        ELSE IF Join(SliceLast(parts, 2)) \in specialTlds
        THEN Join(SliceLast(parts, 3))
        ELSE Join(SliceLast(parts, 2))

\* The domains of the calls of removeSubdomain, up to MaxLabels labels
StripDomains ==
    { Join(L) : L \in UNION { [1..n -> DomainLabels] : n \in 1..MaxLabels } }

\* The domains of the calls of getFavicon
FaviconDomains ==
    { <<"www", Dot, "example", Dot, "com">>,
      <<"www", Dot, "example", Dot, "co", Dot, "jp">>,
      <<"10", Dot, "10", Dot, "10", Dot, "10">> }

\* The answers to an axios request: a status and a content-type header
\* (Null when the header is absent); status 0 is a request without an answer
HeadOutcomes ==
    { [status |-> 200, ctype |-> <<"image/", "png">>],
      [status |-> 200, ctype |-> <<"text/", "html">>],
      [status |-> 200, ctype |-> <<>>],
      [status |-> 204, ctype |-> <<"image/", "png">>],
      [status |-> 404, ctype |-> <<"text/", "html">>],
      [status |-> 0, ctype |-> <<>>] }

\* axios rejects when there is no answer or the status is not 2xx
Throws(o) == o.status \notin 200..299

\* favicon-utils.mjs:67-69, 101-103: status 200 with an image content type
\* (an absent header and an empty one are both falsy)
IsImage(o) ==
    /\ ~Throws(o)
    /\ o.status = 200
    /\ o.ctype # <<>>
    /\ Head(o.ctype) = "image/"

\* favicon-utils.mjs:180: the logo service is asked for status 200 only
IsLogo(o) == ~Throws(o) /\ o.status = 200

\* favicon-utils.mjs:57-62
candidates(mainDomain) ==
    << <<"https://">> \o mainDomain \o <<"/favicon.ico">>,
       <<"https://">> \o mainDomain \o <<"/favicon.png">>,
       <<"https://">> \o mainDomain \o <<"/apple-touch-icon.png">>,
       <<"https://">> \o mainDomain \o <<"/apple-touch-icon-precomposed.png">> >>

\* The href values the link elements of a root page carry
Hrefs ==
    { <<"/", "static/icon.png">>, <<"icon.png">>,
      <<"https://", "cdn", Dot, "example", Dot, "com", "/", "icon.png">> }

\* The root page: the icon links the expression finds in it, in page order
Pages == UNION { [1..n -> Hrefs] : n \in 0..MaxLinks }

\* favicon-utils.mjs:91-96: a relative href is made absolute
iconUrl(mainDomain, href) ==
    IF Head(href) = "/" THEN <<"https://">> \o mainDomain \o href
    ELSE IF Head(href) \notin {"http://", "https://"}
    THEN <<"https://">> \o mainDomain \o <<"/">> \o href
    ELSE href

ServiceUrlNone(mainDomain) == <<>>

\* favicon-utils.mjs:114
ServiceUrl(mainDomain) ==
    <<"https://www.google.com/s2/favicons?domain=">> \o mainDomain
        \o <<"&sz=128">>

\* favicon-utils.mjs:179
clearbitUrl(mainDomain) ==
    <<"https://logo.clearbit.com/">> \o mainDomain \o <<"?size=128">>

\* favicon-utils.mjs:191
googleFaviconUrl(mainDomain) ==
    <<"https://www.google.com/s2/favicons?domain=">> \o mainDomain
        \o <<"&sz=128&ext=png">>

InitFavicon ==
    /\ feedSrc = [u \in Urls |-> <<>>]
    /\ rssStore = [u \in Urls |-> NoDoc]
    /\ clock = 0
    /\ webhookCache = [ch \in Channels |-> 0]
    /\ hooks = [ch \in Channels |-> 0]
    /\ service = "starting"
    /\ cyc = [p \in Procs |-> Idle]
    /\ cycles = 0
    /\ mon = [p \in Procs |-> Mon0]
    /\ prev = Prev0
    /\ dd = DD0
    /\ sched = Sched0
    /\ fmt = Fmt0
    /\ wh = Wh0
    /\ conv = Conv0
    /\ fav \in { [Fav0 EXCEPT !.op = "strip", !.domain = d, !.pc = "start"] :
                    d \in StripDomains }
               \cup { [Fav0 EXCEPT !.op = v, !.domain = d, !.pc = "start"] :
                        v \in {"probing", "logo"}, d \in FaviconDomains }

Others == <<feedSrc, rssStore, clock, webhookCache, hooks, service, cyc,
            cycles, mon, prev, dd, sched, fmt, wh, conv>>

\* favicon-utils.mjs:11-42: one call of removeSubdomain
Strip ==
    /\ fav.op = "strip" /\ fav.pc = "start"
    /\ fav' = [fav EXCEPT !.main = removeSubdomain(fav.domain),
                          !.pc = "stripped"]
    /\ UNCHANGED Others

\* removeSubdomain called on its own result
StripAgain ==
    /\ fav.op = "strip" /\ fav.pc = "stripped"
    /\ fav' = [fav EXCEPT !.again = removeSubdomain(fav.main), !.pc = "done"]
    /\ UNCHANGED Others

\* favicon-utils.mjs:50-54, 171-175: getFavicon computes the main domain
GetFavicon ==
    /\ fav.op \in {"probing", "logo"} /\ fav.pc = "start"
    /\ fav' = [fav EXCEPT !.main = removeSubdomain(fav.domain),
                          !.pc = IF fav.op = "probing" THEN "candidate"
                                 ELSE "logo",
                          !.k = IF fav.op = "probing" THEN 1 ELSE 0]
    /\ UNCHANGED Others

AfterCandidatePageFirst(ok) ==
    IF ok THEN [fav EXCEPT !.pc = "done",
                           !.result = candidates(fav.main)[fav.k]]
    ELSE [fav EXCEPT !.pc = "page"]

\* favicon-utils.mjs:65-78: return the candidate, or go to the next one, or to
\* the root page after the last
AfterCandidate(ok) ==
    IF ok THEN [fav EXCEPT !.pc = "done",
                           !.result = candidates(fav.main)[fav.k]]
    ELSE IF fav.k < Len(candidates(fav.main))
    THEN [fav EXCEPT !.k = @ + 1]
    ELSE [fav EXCEPT !.pc = "page"]

\* favicon-utils.mjs:65-78: one axios.head on a direct candidate; a rejected
\* request is caught and the loop continues
HeadCandidate ==
    /\ fav.op = "probing" /\ fav.pc = "candidate"
    /\ \E o \in HeadOutcomes :
          fav' = [AfterCandidate(IsImage(o)) EXCEPT
                    !.probes = Append(@, [url |-> candidates(fav.main)[fav.k],
                                          ok |-> IsImage(o)])]
    /\ UNCHANGED Others

\* favicon-utils.mjs:81-87, 109-111: axios.get on the root page; a rejected
\* request is caught and logged
GetPage ==
    /\ fav.op = "probing" /\ fav.pc = "page"
    /\ \/ fav' = [fav EXCEPT !.page = "failed", !.pageAt = Len(fav.probes),
                             !.pc = "service"]
       \/ \E links \in Pages :
             fav' = [fav EXCEPT !.page = "fetched", !.links = links,
                                !.pageAt = Len(fav.probes),
                                !.j = IF links = <<>> THEN 0 ELSE 1,
                                !.pc = IF links = <<>> THEN "service"
                                       ELSE "link"]
    /\ UNCHANGED Others

\* favicon-utils.mjs:88-108: one axios.head on an icon link of the page
HeadLink ==
    /\ fav.op = "probing" /\ fav.pc = "link"
    /\ \E o \in HeadOutcomes :
          LET url == iconUrl(fav.main, fav.links[fav.j])
              probes == Append(fav.probes, [url |-> url, ok |-> IsImage(o)])
          IN  fav' = IF IsImage(o)
                     THEN [fav EXCEPT !.probes = probes, !.pc = "done",
                                      !.result = url]
                     ELSE IF fav.j < Len(fav.links)
                     THEN [fav EXCEPT !.probes = probes, !.j = @ + 1]
                     ELSE [fav EXCEPT !.probes = probes, !.pc = "service"]
    /\ UNCHANGED Others

\* favicon-utils.mjs:113-114: the favicon service URL, returned unprobed
ReturnService ==
    /\ fav.op = "probing" /\ fav.pc = "service"
    /\ fav' = [fav EXCEPT !.pc = "done", !.result = ServiceUrl(fav.main)]
    /\ UNCHANGED Others

\* favicon-utils.mjs:177-192: axios.head on the logo service, then the
\* favicon service URL
HeadLogo ==
    /\ fav.op = "logo" /\ fav.pc = "logo"
    /\ \E o \in HeadOutcomes :
          fav' = [fav EXCEPT
                    !.probes = Append(@, [url |-> clearbitUrl(fav.main),
                                          ok |-> IsLogo(o)]),
                    !.pc = "done",
                    !.result = IF IsLogo(o) THEN clearbitUrl(fav.main)
                               ELSE googleFaviconUrl(fav.main)]
    /\ UNCHANGED Others

NextFavicon ==
    \/ Strip
    \/ StripAgain
    \/ GetFavicon
    \/ HeadCandidate
    \/ GetPage
    \/ HeadLink
    \/ ReturnService
    \/ HeadLogo

SpecFavicon == InitFavicon /\ [][NextFavicon]_vars

-----------------------------------------------------------------------------
(* The sort of a batch and the content block of an item on their own        *)
(* (SpecFormat): newItems.sort of rss-service.mjs and the description of     *)
(* createRssItemContainer in feed-formatter.mjs, one call per behaviour.     *)
(* A snippet is a string of characters, "x" or the blank " ".                *)

\* The items of a batch: three dated, one whose date does not parse, one
\* without a date
SortPool ==
    { Item("s1", 3000, "a"), Item("s2", 1000, "b"), Item("s3", 500, "c"),
      Item("s4", BadDate, "d"), Item("s5", NoDate, "e") }

\* The batches handed to the sort, in fetch order
Batches == { s \in SeqsUpTo(SortPool, MaxBatch) : NoRepeat(s) }

Rep(c, n) == [i \in 1..n |-> c]

\* The content snippets: blanks, text up to and around the limit, blanks,
\* text
Snippets ==
    { Rep(" ", a) \o Rep("x", b) \o Rep(" ", c) \o Rep("x", d) :
        a \in 0..1,
        b \in {0, 1} \cup ((SnippetLimit - MaxPad - 1)..(SnippetLimit + 1)),
        c \in 0..MaxPad, d \in 0..MaxPad }

\* String.prototype.substring(0, n)
Substring(s, n) == SubSeq(s, 1, IF Len(s) < n THEN Len(s) ELSE n)

RECURSIVE TrimStart(_)
TrimStart(s) ==
    IF s # <<>> /\ Head(s) = " " THEN TrimStart(Tail(s)) ELSE s

RECURSIVE TrimEnd(_)
TrimEnd(s) ==
    IF s # <<>> /\ s[Len(s)] = " " THEN TrimEnd(SubSeq(s, 1, Len(s) - 1))
    ELSE s

\* String.prototype.trim()
Trim(s) == TrimEnd(TrimStart(s))

Ellipsis == <<".", ".", ".">>

descriptionFromLimit(contentSnippet) ==
    IF Len(contentSnippet) >= SnippetLimit
    THEN Trim(Substring(contentSnippet, SnippetLimit)) \o Ellipsis
    ELSE Trim(contentSnippet)

\* feed-formatter.mjs:195-197
description(contentSnippet) ==
    IF Len(contentSnippet) > SnippetLimit
    THEN Trim(Substring(contentSnippet, SnippetLimit)) \o Ellipsis
    ELSE Trim(contentSnippet)

InitFormat ==
    /\ feedSrc = [u \in Urls |-> <<>>]
    /\ rssStore = [u \in Urls |-> NoDoc]
    /\ clock = 0
    /\ webhookCache = [ch \in Channels |-> 0]
    /\ hooks = [ch \in Channels |-> 0]
    /\ service = "starting"
    /\ cyc = [p \in Procs |-> Idle]
    /\ cycles = 0
    /\ mon = [p \in Procs |-> Mon0]
    /\ prev = Prev0
    /\ dd = DD0
    /\ sched = Sched0
    /\ fav = Fav0
    /\ wh = Wh0
    /\ conv = Conv0
    /\ fmt \in { [Fmt0 EXCEPT !.op = "sort", !.batch = b] : b \in Batches }
               \cup { [Fmt0 EXCEPT !.op = "snippet", !.snippet = s] :
                        s \in Snippets }

\* rss-service.mjs:169-184: one call of newItems.sort
SortBatch ==
    /\ fmt.op = "sort" /\ ~fmt.done
    /\ fmt' = [fmt EXCEPT !.sorted = SortNewItems(fmt.batch), !.done = TRUE]
    /\ UNCHANGED <<feedSrc, rssStore, clock, webhookCache, hooks, service, cyc,
                   cycles, mon, prev, dd, sched, fav, wh, conv>>

\* feed-formatter.mjs:193-201: the content block, when the item has a snippet
ContentBlock ==
    /\ fmt.op = "snippet" /\ ~fmt.done
    /\ fmt' = IF fmt.snippet # <<>>
              THEN [fmt EXCEPT !.text = description(fmt.snippet),
                               !.block = TRUE,
                               !.done = TRUE]
              ELSE [fmt EXCEPT !.done = TRUE]
    /\ UNCHANGED <<feedSrc, rssStore, clock, webhookCache, hooks, service, cyc,
                   cycles, mon, prev, dd, sched, fav, wh, conv>>

NextFormat == SortBatch \/ ContentBlock

SpecFormat == InitFormat /\ [][NextFormat]_vars

-----------------------------------------------------------------------------
(* The webhook cache on its own (SpecWebhook): calls of getWebhookInChannel *)
(* of discord/webhook-utils.mjs, one after the other, on text channels and   *)
(* on threads.  A webhook is named by the channel that holds it and its      *)
(* place in that channel's list; a list shows for each webhook whether it    *)
(* has a token.                                                              *)

TextChannels == {"A", "B"}
Threads == {"T", "U"}
Destinations == TextChannels \cup Threads

\* channel.parent: thread T belongs to channel A, the parent of thread U is
\* not available
Parent(channel) == IF channel = "T" THEN "A" ELSE Null

Webhook(channel, n) == [on |-> channel, n |-> n]
NoWebhook == Webhook(Null, 0)

\* webhook-utils.mjs:21-27: a thread with a parent is served by its parent
targetChannel(channel) ==
    IF channel \in Threads /\ Parent(channel) # Null THEN Parent(channel)
    ELSE channel

findFirstListed(webhooks) == IF webhooks # <<>> THEN 1 ELSE 0

\* webhook-utils.mjs:31: webhooks.find(wh => wh.token), 0 when there is none
find(webhooks) ==
    IF \E i \in 1..Len(webhooks) : webhooks[i]
    THEN CHOOSE i \in 1..Len(webhooks) :
            webhooks[i] /\ \A j \in 1..(i - 1) : ~webhooks[j]
    ELSE 0

InitWebhook ==
    /\ feedSrc = [u \in Urls |-> <<>>]
    /\ rssStore = [u \in Urls |-> NoDoc]
    /\ clock = 0
    /\ webhookCache = [ch \in Channels |-> 0]
    /\ hooks = [ch \in Channels |-> 0]
    /\ service = "starting"
    /\ cyc = [p \in Procs |-> Idle]
    /\ cycles = 0
    /\ mon = [p \in Procs |-> Mon0]
    /\ prev = Prev0
    /\ dd = DD0
    /\ sched = Sched0
    /\ fav = Fav0
    /\ fmt = Fmt0
    /\ conv = Conv0
    /\ wh \in { [Wh0 EXCEPT !.cache = [d \in Destinations |-> NoWebhook],
                            !.webhooks = w] :
                  w \in [TextChannels -> SeqsUpTo(BOOLEAN, MaxHooks)] }

Rest == <<feedSrc, rssStore, clock, webhookCache, hooks, service, cyc, cycles,
          mon, prev, dd, sched, fav, fmt, conv>>

\* webhook-utils.mjs:14-19: a call; an entry of the cache is returned as it is
GetWebhookInChannel(channel) ==
    /\ wh.pc = "idle" /\ wh.calls < MaxCalls
    /\ wh' = [wh EXCEPT
                !.calls = @ + 1, !.channel = channel,
                !.hit = wh.cache[channel] # NoWebhook,
                !.webhook = wh.cache[channel],
                !.listedOn = Null, !.seen = <<>>, !.createdOn = Null,
                !.pc = IF wh.cache[channel] # NoWebhook THEN "returned"
                       ELSE "fetchWebhooks"]
    /\ UNCHANGED Rest

ReturnNullCached ==
    [wh EXCEPT !.webhook = NoWebhook, !.pc = "returned",
               !.failed = @ \cup {wh.channel},
               !.cache[wh.channel] = Webhook(wh.channel, 0)]

\* webhook-utils.mjs:40-43: the catch block logs and returns null; the
\* channels a call has failed for are remembered (history)
ReturnNull ==
    [wh EXCEPT !.webhook = NoWebhook, !.pc = "returned",
               !.failed = @ \cup {wh.channel}]

\* webhook-utils.mjs:30-38, 40-43: fetchWebhooks on the target; a webhook
\* with a token is cached under the id of the channel asked for.  The call
\* throws when the request fails or the target is a thread (a thread has no
\* fetchWebhooks), and null is returned.
FetchWebhooks ==
    /\ wh.pc = "fetchWebhooks"
    /\ LET target == targetChannel(wh.channel)
       IN  \E answered \in BOOLEAN :
             IF answered /\ target \in TextChannels
             THEN LET n == find(wh.webhooks[target])
                  IN  wh' = IF n # 0
                            THEN [wh EXCEPT
                                    !.listedOn = target,
                                    !.seen = wh.webhooks[target],
                                    !.webhook = Webhook(target, n),
                                    !.cache[wh.channel] = Webhook(target, n),
                                    !.pc = "returned"]
                            ELSE [wh EXCEPT
                                    !.listedOn = target,
                                    !.seen = wh.webhooks[target],
                                    !.pc = "createWebhook"]
             ELSE wh' = [ReturnNull EXCEPT !.listedOn = target]
    /\ UNCHANGED Rest

\* webhook-utils.mjs:31-38, 40-43: createWebhook on the target; the new
\* webhook has a token and is cached; a throw gives null
CreateWebhook ==
    /\ wh.pc = "createWebhook"
    /\ LET target == targetChannel(wh.channel)
           n == Len(wh.webhooks[target]) + 1
       IN  \E created \in BOOLEAN :
             wh' = IF created
                   THEN [wh EXCEPT
                           !.createdOn = target,
                           !.webhooks[target] = Append(@, TRUE),
                           !.webhook = Webhook(target, n),
                           !.cache[wh.channel] = Webhook(target, n),
                           !.pc = "returned"]
                   ELSE [ReturnNull EXCEPT !.createdOn = target]
    /\ UNCHANGED Rest

\* getWebhookInChannel has returned wh.webhook
Returned ==
    /\ wh.pc = "returned"
    /\ wh' = [wh EXCEPT !.pc = "idle"]
    /\ UNCHANGED Rest

NextWebhook ==
    \/ \E channel \in Destinations : GetWebhookInChannel(channel)
    \/ FetchWebhooks
    \/ CreateWebhook
    \/ Returned

SpecWebhook == InitWebhook /\ [][NextWebhook]_vars

-----------------------------------------------------------------------------
(* The conversation store of the assistant (SpecConv): the messages of one  *)
(* user, the answers of the API, the clock and the expiry timers.  A message *)
(* is its role and its arrival number; a timer is its id (the arrival number *)
(* of the message that armed it), its user and the time it is due.           *)

\* claude-service.mjs:14: CONVERSATION_TIMEOUT in milliseconds
CONVERSATION_TIMEOUT == 30 * 60 * 1000

\* The clock advances by half a timeout
Quantum == CONVERSATION_TIMEOUT \div 2

NotConv == <<feedSrc, rssStore, clock, webhookCache, hooks, service, cyc,
             cycles, mon, prev, dd, sched, fav, fmt, wh>>

InitConv ==
    /\ feedSrc = [u \in Urls |-> <<>>]
    /\ rssStore = [u \in Urls |-> NoDoc]
    /\ clock = 0
    /\ webhookCache = [ch \in Channels |-> 0]
    /\ hooks = [ch \in Channels |-> 0]
    /\ service = "starting"
    /\ cyc = [p \in Procs |-> Idle]
    /\ cycles = 0
    /\ mon = [p \in Procs |-> Mon0]
    /\ prev = Prev0
    /\ dd = DD0
    /\ sched = Sched0
    /\ fav = Fav0
    /\ fmt = Fmt0
    /\ wh = Wh0
    /\ conv \in { [Conv0 EXCEPT !.apiKey = k] : k \in BOOLEAN }

clearTimeoutNot(timers, id) == timers

\* claude-service.mjs:100-102: clearTimeout of the timer the map holds for
\* the user (id 0: the map has no entry)
clearTimeout(timers, id) == { t \in timers : t.id # id }

spliceTail(history) ==
    IF Len(history) > MAX_HISTORY_LENGTH
    THEN SubSeq(history, 1, MAX_HISTORY_LENGTH)
    ELSE history

\* claude-service.mjs:120-122: history.splice(0, length - MAX_HISTORY_LENGTH)
splice(history) ==
    IF Len(history) > MAX_HISTORY_LENGTH
    THEN SubSeq(history, Len(history) - MAX_HISTORY_LENGTH + 1, Len(history))
    ELSE history

\* claude-service.mjs:98-132: manageConversationHistory on the store c
manageConversationHistory(c, userId, message, isReply) ==
    LET stored == IF userId \in c.known THEN c.history[userId] ELSE <<>>
        kept == IF ~isReply THEN <<>> ELSE stored
        timeoutId == [id |-> message.n, user |-> userId,
                      due |-> c.now + CONVERSATION_TIMEOUT]
    IN  [c EXCEPT !.history[userId] = splice(Append(kept, message)),
                  !.known = @ \cup {userId},
                  !.timers = clearTimeout(@, c.timeouts[userId]) \cup {timeoutId},
                  !.timeouts[userId] = timeoutId.id,
                  !.count[userId] = message.n,
                  !.reply = isReply,
                  !.updated[userId] = c.now]

\* claude-service.mjs:328-365, 263-274: handleClaudeMessage on a message of
\* the user: the message joins the history and the history is handed to the
\* API; without an API key getClaudeInstance throws before the request and
\* the handler ends (376-379)
HandleClaudeMessage(userId, isReply) ==
    /\ conv.count[userId] < MaxMessages
    /\ conv.inflight[userId] < MaxInFlight
    /\ LET userMessage == [role |-> "user", n |-> conv.count[userId] + 1]
           c == manageConversationHistory(conv, userId, userMessage, isReply)
       IN  conv' = IF conv.apiKey
                   THEN [c EXCEPT !.handed = c.history[userId],
                                  !.inflight[userId] = @ + 1]
                   ELSE c
    /\ UNCHANGED NotConv

\* claude-service.mjs:276-296, 365-374: the API call has answered or failed
\* (callClaudeApi returns the answer or an error text) and the text joins
\* the history as the assistant's message
AssistantMessage(userId) ==
    /\ conv.inflight[userId] > 0
    /\ conv.count[userId] < MaxMessages
    /\ LET assistantMessage == [role |-> "assistant", n |-> conv.count[userId] + 1]
           c == manageConversationHistory(conv, userId, assistantMessage, TRUE)
       IN  conv' = [c EXCEPT !.inflight[userId] = @ - 1]
    /\ UNCHANGED NotConv

\* Time passes
Advance ==
    /\ conv.now < MaxQuanta * Quantum
    /\ conv' = [conv EXCEPT !.now = @ + Quantum]
    /\ UNCHANGED NotConv

\* claude-service.mjs:125-129: a pending timer that is due fires
Timeout(t) ==
    /\ t \in conv.timers
    /\ t.due <= conv.now
    /\ conv' = [conv EXCEPT !.timers = @ \ {t},
                            !.known = @ \ {t.user},
                            !.history[t.user] = <<>>,
                            !.timeouts[t.user] = 0]
    /\ UNCHANGED NotConv

NextConv ==
    \/ \E userId \in Users, isReply \in BOOLEAN :
           HandleClaudeMessage(userId, isReply)
    \/ \E userId \in Users : AssistantMessage(userId)
    \/ Advance
    \/ \E t \in conv.timers : Timeout(t)

SpecConv == InitConv /\ [][NextConv]_vars

-----------------------------------------------------------------------------
(* Claims on the pipeline, checked under Spec.  The feed sources do not     *)
(* change during a run: every cycle of a run meets the same feed response.  *)

RECURSIVE SumOver(_, _)
SumOver(f, S) ==
    IF S = {} THEN 0
    ELSE LET x == CHOOSE y \in S : TRUE IN f[x] + SumOver(f, S \ {x})

FeedChannels(p) == { Feed(p).channels[j] : j \in 1..Len(Feed(p).channels) }

\* The cycle of p has classified the items of its current feed
Classified(p) ==
    /\ cyc[p].pc \in {"favicon", "resolve", "listHooks", "createHook", "send",
                      "update", "updWrite", "next"}
    /\ cyc[p].fi \in mon[p].c.diffed

\* The dispatch loop has left the observed item
ItemDone(p) ==
    /\ mon[p].i.item > 0
    /\ \/ cyc[p].pc \in {"update", "updWrite", "next"}
       \/ cyc[p].pc = "resolve" /\ cyc[p].ci = 1 /\ cyc[p].ii > mon[p].i.item

StoredMark(url) ==
    Mark(rssStore[url].lastItemId, rssStore[url].lastPublishDate,
         rssStore[url].lastTitle)

\* Every item of the list carries a stable id and a publish date that parses
StableIds(items) ==
    \A k \in 1..Len(items) : items[k].guid # Null /\ Parsed(items[k]) # NoDate

\* C1: a cycle that follows a cycle whose watermark write for the feed
\* succeeded, reads that watermark and meets the same feed response, classifies
\* no item as new and sends nothing for the feed.  Stated for the feeds the
\* claim names: those whose items carry stable ids.
C1_Idempotence ==
    \A p \in Procs :
        (/\ Classified(p)
         /\ cyc[p].fi \in prev.wroteOk
         /\ mon[p].f.read = "found"
         /\ StableIds(cyc[p].feedData))
            => (cyc[p].newItems = <<>> /\ mon[p].f.sends = 0)

\* C2 (as amended): after a successful watermark write the stored lastItemId,
\* lastPublishDate and lastTitle are those of the last element of the sorted
\* new-item batch, an absent field and a publish date that does not parse
\* being stored as null.
C2_WatermarkIsLastOfBatch ==
    \A p \in Procs :
        (cyc[p].pc = "next" /\ mon[p].f.write = "ok")
            => LET last == cyc[p].newItems[Len(cyc[p].newItems)]
               IN  /\ rssStore[Feed(p).url].exists
                   /\ StoredMark(Feed(p).url)
                        = Mark(last.guid, Parsed(last), last.title)

\* C2 as stated: only an absent field is stored as null, so the stored
\* lastPublishDate is the last element's publish date whenever it has one.
C2_AsStated ==
    \A p \in Procs :
        (cyc[p].pc = "next" /\ mon[p].f.write = "ok")
            => LET last == cyc[p].newItems[Len(cyc[p].newItems)]
               IN  StoredMark(Feed(p).url)
                        = Mark(last.guid, last.pubDate, last.title)

C2_Witness ==
    \E p \in Procs :
        /\ cyc[p].pc = "next" /\ mon[p].f.write = "ok"
        /\ Len(cyc[p].newItems) >= 2
        /\ cyc[p].newItems[Len(cyc[p].newItems)] = cyc[p].feedData[1]

\* C3: within one cycle and one feed no send of an item is attempted after a
\* send of an item with a later publish instant (both instants parsing).
C3_AscendingDispatch ==
    \A p \in Procs : ~mon[p].f.outOfOrder

\* C4: when every send of an item to one destination failed, every
\* destination of the feed still had its turn for that item; if another
\* destination received the item, it was delivered exactly once; the feed's
\* remaining items were all dispatched and updateRssStatus was called once.
C4_FanOutIndependence ==
    \A p \in Procs :
        /\ (ItemDone(p) /\ FailedDest(p))
              => mon[p].i.visited = FeedChannels(p)
        /\ (ItemDone(p) /\ FanoutCase(p))
              => SumOver(mon[p].i.ok, Channels) = 1
        /\ (mon[p].f.partial /\ cyc[p].pc \in {"updWrite", "next"})
              => /\ mon[p].f.pairs
                      = Len(cyc[p].newItems) * Len(Feed(p).channels)
                 /\ mon[p].c.setCalls[cyc[p].fi] = 1

C4_Witness ==
    \E p \in Procs :
        /\ cyc[p].pc = "next" /\ mon[p].f.write = "ok"
        /\ Len(cyc[p].newItems) >= 2
        /\ mon[p].i.tried["A"] = 2 /\ mon[p].i.ok["A"] = 0
        /\ mon[p].i.ok["B"] = 1

\* C5: at the end of a cycle in which the fetch of a feed failed, every feed
\* configured after it was fetched in its turn and, when its own fetch
\* succeeded, was diffed, dispatched and (having new items) had its
\* watermark set.
C5_FeedIsolation ==
    \A p \in Procs :
        cyc[p].pc = "done"
            => /\ mon[p].c.order = [i \in FeedIdx |-> i]
               /\ \A x \in mon[p].c.fetchFailed : \A y \in FeedIdx :
                    y > x =>
                       \/ y \in mon[p].c.fetchFailed
                       \/ /\ y \in mon[p].c.fetchedOk
                          /\ y \in mon[p].c.diffed
                          /\ y \in mon[p].c.dispatched
                          /\ (y \in mon[p].c.hadNew => mon[p].c.setCalls[y] = 1)

C5_Witness ==
    \E p \in Procs :
        /\ cyc[p].pc = "done"
        /\ 1 \in mon[p].c.fetchFailed
        /\ 2 \in mon[p].c.wroteOk

\* The new items are the fetched items, each once
AllNew(p) ==
    /\ Len(cyc[p].newItems) = Len(cyc[p].feedData)
    /\ \A k \in 1..Len(cyc[p].feedData) :
          \E j \in 1..Len(cyc[p].newItems) : cyc[p].newItems[j] = cyc[p].feedData[k]

\* C6: for a feed whose watermark document does not exist, every fetched
\* item is classified new, no item is sent after an item with a later publish
\* instant, and after a successful write the stored watermark is that of the
\* last item of the batch.
C6_FirstRun ==
    \A p \in Procs :
        (Classified(p) /\ mon[p].f.read = "absent")
            => /\ AllNew(p)
               /\ ~mon[p].f.outOfOrder
               /\ (cyc[p].pc = "next" /\ mon[p].f.write = "ok")
                     => LET last == cyc[p].newItems[Len(cyc[p].newItems)]
                        IN  StoredMark(Feed(p).url)
                              = Mark(last.guid, Parsed(last), last.title)

\* C10: in one cycle updateRssStatus is called at most once per feed, no send
\* of the feed is attempted after that call, and when it is called every
\* (new item, destination) pair of the feed has had its turn.
C10_SetOnceAfterDispatch ==
    \A p \in Procs :
        /\ \A i \in FeedIdx : mon[p].c.setCalls[i] <= 1
        /\ ~mon[p].f.sendAfterSet
        /\ mon[p].f.write # "none" => cyc[p].pc \in {"updWrite", "next"}
        /\ (cyc[p].fi \in FeedIdx /\ mon[p].c.setCalls[cyc[p].fi] > 0)
              => /\ cyc[p].pc \in {"updWrite", "next"}
                 /\ mon[p].f.pairs
                      = Len(cyc[p].newItems) * Len(Feed(p).channels)

C10_Witness ==
    \E p \in Procs :
        /\ cyc[p].pc = "next"
        /\ mon[p].c.setCalls[cyc[p].fi] = 1
        /\ Len(cyc[p].newItems) >= 2 /\ Len(Feed(p).channels) = 2
        /\ mon[p].f.pairs = 4 /\ mon[p].f.sends = 1

\* C11: while a feed's new-item batch is empty the cycle attempts no send
\* for the feed, calls updateRssStatus not at all, and no step changes the
\* feed's record (updatedAt included).
C11_NoNewItemsNoEffect ==
    /\ [](\A p \in Procs :
            (Classified(p) /\ cyc[p].newItems = <<>>)
                => /\ mon[p].f.sends = 0 /\ mon[p].f.pairs = 0
                   /\ mon[p].c.setCalls[cyc[p].fi] = 0
                   /\ mon[p].f.write = "none")
    /\ [][\A p \in Procs :
            (Classified(p) /\ cyc[p].newItems = <<>>)
                => rssStore'[Feed(p).url] = rssStore[Feed(p).url]]_vars

C11_Witness ==
    \E p \in Procs :
        /\ cyc[p].pc = "next" /\ Classified(p)
        /\ cyc[p].newItems = <<>> /\ cyc[p].feedData # <<>>
        /\ rssStore[Feed(p).url].exists
        /\ rssStore[Feed(p).url].updatedAt < clock

\* C12: a feed whose fetch failed is not classified, has no send and no
\* updateRssStatus call in that cycle; a feed is fetched once per cycle, and a
\* record changes only in the write step of a cycle whose fetch of that feed
\* succeeded.
C12_FetchFailureNoEffect ==
    /\ [](\A p \in Procs :
            /\ NoRepeat(mon[p].c.order)
            /\ mon[p].c.fetchFailed \cap mon[p].c.fetchedOk = {}
            /\ \A x \in mon[p].c.fetchFailed :
                  /\ x \notin mon[p].c.diffed
                  /\ mon[p].c.setCalls[x] = 0
                  /\ cyc[p].fi = x
                        => /\ cyc[p].pc = "next"
                           /\ mon[p].f.sends = 0 /\ mon[p].f.pairs = 0)
    /\ [][\A u \in Urls :
            rssStore'[u] # rssStore[u]
                => \E p \in Procs :
                      /\ cyc[p].pc = "updWrite" /\ Feed(p).url = u
                      /\ cyc[p].fi \in mon[p].c.fetchedOk
                      /\ cyc[p].fi \notin mon[p].c.fetchFailed]_vars

C12_Witness ==
    \E p \in Procs :
        /\ cyc[p].pc = "next" /\ cyc[p].fi = 1
        /\ 1 \in mon[p].c.fetchFailed
        /\ rssStore[Feed(p).url].exists
        /\ cycles = 2

\* C13: a record, once it exists, stays; the set that creates it stamps
\* createdAt with the time of that set, and every later set keeps createdAt
\* and moves updatedAt forward.
C13_Upsert ==
    /\ [](\A u \in Urls :
            rssStore[u].exists
                => (rssStore[u].createdAt > 0
                    /\ rssStore[u].createdAt <= rssStore[u].updatedAt))
    /\ [][\A u \in Urls :
            rssStore'[u] # rssStore[u]
                => /\ rssStore'[u].exists
                   /\ rssStore'[u].updatedAt = clock
                   /\ rssStore'[u].createdAt
                        = IF rssStore[u].exists THEN rssStore[u].createdAt
                          ELSE clock]_vars

C13_Witness ==
    \E u \in Urls :
        /\ rssStore[u].exists
        /\ rssStore[u].createdAt < rssStore[u].updatedAt
        /\ rssStore[u].lastItemId # Null

\* C15: when the listing or the creation of a webhook fails, the resolve
\* ends with null: nothing is cached, the loop steps to the following
\* (item, destination) pair, and at the end of the feed every pair has had
\* its turn.
C15_ResolveFailureSkipsOnePair ==
    /\ [](\A p \in Procs :
            /\ \A ch \in mon[p].i.noHook :
                  mon[p].i.tried[ch] = 0 /\ webhookCache[ch] = 0
            /\ (cyc[p].pc \in {"updWrite", "next"} /\ cyc[p].newItems # <<>>)
                  => mon[p].f.pairs
                       = Len(cyc[p].newItems) * Len(Feed(p).channels))
    /\ [][\A p \in Procs :
            (/\ cyc[p].pc \in {"listHooks", "createHook"}
             /\ cyc'[p].pc \notin {"listHooks", "createHook", "send"})
                => /\ cyc'[p].pc = NextPair(p).pc
                   /\ cyc'[p].ii = NextPair(p).ii
                   /\ cyc'[p].ci = NextPair(p).ci
                   /\ cyc'[p].newItems = cyc[p].newItems
                   /\ webhookCache' = webhookCache]_vars

C15_Witness ==
    \E p \in Procs :
        /\ cyc[p].pc = "next" /\ Len(cyc[p].newItems) >= 2
        /\ mon[p].i.item = Len(cyc[p].newItems)
        /\ mon[p].i.noHook = {"A"}
        /\ mon[p].i.ok["B"] = 1
        /\ mon[p].f.write = "ok"

\* C16: the fallback payload is sent exactly when the primary path failed;
\* a pair has at most two send attempts and at most one delivery; whatever
\* the sends did, the send routine returns and the loop takes the following
\* pair.
C16_Fallback ==
    /\ [](\A p \in Procs :
            /\ ~mon[p].f.fbMismatch
            /\ \A ch \in Channels :
                  /\ mon[p].i.tried[ch] <= 2
                  /\ mon[p].i.ok[ch] <= 1
                  /\ mon[p].i.ok[ch] <= mon[p].i.tried[ch])
    /\ [][\A p \in Procs :
            (cyc[p].pc = "send" /\ cyc'[p] # cyc[p])
                => /\ cyc'[p].pc = NextPair(p).pc
                   /\ cyc'[p].ii = NextPair(p).ii
                   /\ cyc'[p].ci = NextPair(p).ci
                   /\ mon'[p].i.visited = mon[p].i.visited]_vars

C16_Witness ==
    \E p \in Procs :
        /\ cyc[p].pc = "next" /\ Len(cyc[p].newItems) >= 2
        /\ mon[p].i.item = Len(cyc[p].newItems)
        /\ mon[p].i.tried["A"] = 2 /\ mon[p].i.ok["A"] = 1
        /\ mon[p].i.tried["B"] = 1 /\ mon[p].i.ok["B"] = 0
        /\ mon[p].f.pairs = 2 * Len(cyc[p].newItems)

\* C20: when the read of a feed's record fails, the cycle goes on with the
\* empty watermark: every fetched item is new, every (item, destination)
\* pair has its turn and updateRssStatus is called for the batch.
C20_ReadFailureDegrades ==
    \A p \in Procs :
        mon[p].f.read = "failed"
            => /\ Classified(p)
               /\ cyc[p].lastProcessed = NoMark
               /\ AllNew(p)
               /\ cyc[p].pc \in {"updWrite", "next"}
                     => /\ mon[p].f.pairs
                             = Len(cyc[p].feedData) * Len(Feed(p).channels)
                        /\ mon[p].c.setCalls[cyc[p].fi]
                             = IF cyc[p].feedData = <<>> THEN 0 ELSE 1

C20_Witness ==
    \E p \in Procs :
        /\ mon[p].f.read = "failed" /\ cyc[p].pc = "next"
        /\ rssStore[Feed(p).url].exists
        /\ rssStore[Feed(p).url].createdAt < rssStore[Feed(p).url].updatedAt
        /\ Len(cyc[p].feedData) >= 2 /\ StableIds(cyc[p].feedData)
        /\ Len(cyc[p].newItems) = Len(cyc[p].feedData)
        /\ mon[p].f.write = "ok"

\* The feed the loop is at has been processed to its end: its fetch failed,
\* or it had nothing new, or every pair of its batch had its turn and the
\* call of updateRssStatus has returned or thrown
FeedCompleted(p) ==
    /\ cyc[p].pc = "next"
    /\ \/ cyc[p].fi \in mon[p].c.fetchFailed
       \/ /\ cyc[p].fi \in mon[p].c.diffed /\ cyc[p].newItems = <<>>
          /\ mon[p].c.setCalls[cyc[p].fi] = 0
       \/ /\ cyc[p].newItems # <<>>
          /\ mon[p].f.pairs = Len(cyc[p].newItems) * Len(Feed(p).channels)
          /\ mon[p].c.setCalls[cyc[p].fi] = 1
          /\ mon[p].f.write \in {"ok", "failed"}

\* C25: the fetches of a cycle start in configuration order, one per feed,
\* and all feeds have had theirs when the cycle ends; the loop moves from
\* feed k to feed k+1 only when feed k has been processed to its end, and a
\* fetch is started only for the feed the loop is at.
C25_SequentialFeeds ==
    /\ [](\A p \in Procs :
            /\ \A i \in 1..Len(mon[p].c.order) : mon[p].c.order[i] = i
            /\ cyc[p].pc = "done" => Len(mon[p].c.order) = Len(rssConfig))
    /\ [][\A p \in Procs :
            /\ (cyc'[p].fi # cyc[p].fi /\ cyc'[p].fi > 1)
                  => (cyc'[p].fi = cyc[p].fi + 1 /\ FeedCompleted(p))
            /\ Len(mon'[p].c.order) = Len(mon[p].c.order) + 1
                  => /\ cyc[p].pc = "fetch"
                     /\ mon'[p].c.order = Append(mon[p].c.order, cyc[p].fi)]_vars

C25_Witness ==
    \E p \in Procs :
        /\ cyc[p].pc = "fetch" /\ cyc[p].fi = 2
        /\ mon[p].c.order = <<1>>
        /\ 1 \in mon[p].c.hadNew
        /\ 1 \in mon[p].c.wroteOk

\* C30: a successful watermark write never replaces a stored publish date by
\* an earlier one.
C30_WatermarkNeverMovesBack ==
    [][\A u \in Urls :
          (/\ rssStore'[u] # rssStore[u]
           /\ rssStore[u].exists
           /\ rssStore[u].lastPublishDate # NoDate
           /\ rssStore'[u].lastPublishDate # NoDate)
              => rssStore'[u].lastPublishDate >= rssStore[u].lastPublishDate]_vars

-----------------------------------------------------------------------------
(* Claims on failed watermark writes, checked under SpecRetry *)

-----------------------------------------------------------------------------
(* Claims on the icon resolver, checked under SpecFavicon *)

Stripped == fav.op = "strip" /\ fav.pc \in {"stripped", "done"}
Resolving == fav.op \in {"probing", "logo"}

\* A URL: a non-empty string that starts with a scheme
IsUrl(u) ==
    /\ u # <<>>
    /\ \/ Head(u) \in {"https://", "http://"}
       \/ u \in {ServiceUrl(fav.main), googleFaviconUrl(fav.main),
                 clearbitUrl(fav.main)}

\* C22: in both variants, whatever the answers to the requests, getFavicon
\* goes on until it returns, and what it returns is a URL.
C22_ResolverNeverFails ==
    Resolving =>
        /\ fav.pc = "done" => IsUrl(fav.result)
        /\ fav.pc # "done" => ENABLED NextFavicon

C22_Witness ==
    /\ fav.op = "probing" /\ fav.pc = "done"
    /\ fav.page = "failed"
    /\ Len(fav.probes) = 4
    /\ fav.result = ServiceUrl(fav.main)

\* The logo-service variant returns after a rejected request as well
C22_WitnessLogo ==
    /\ fav.op = "logo" /\ fav.pc = "done"
    /\ ~fav.probes[1].ok
    /\ fav.result = googleFaviconUrl(fav.main)

\* C23: an IPv4 literal and a domain of at most two labels are returned
\* unchanged; a domain of three labels or more keeps its last three labels
\* when its last two are an entry of the two-label-TLD table, its last two
\* otherwise; stripping the result again changes nothing.
C23_DomainStripping ==
    Stripped =>
        LET L == Split(fav.domain)
            n == Len(L)
            ip == IsIpAddress(fav.domain)
        IN  /\ (ip \/ n <= 2) => fav.main = fav.domain
            /\ (~ip /\ n >= 3 /\ Join(<<L[n-1], L[n]>>) \in specialTlds)
                  => fav.main = Join(<<L[n-2], L[n-1], L[n]>>)
            /\ (~ip /\ n >= 3 /\ Join(<<L[n-1], L[n]>>) \notin specialTlds)
                  => fav.main = Join(<<L[n-1], L[n]>>)
            /\ fav.pc = "done" => fav.again = fav.main

C23_Witness ==
    /\ fav.op = "strip" /\ fav.pc = "done"
    /\ fav.domain = <<"www", Dot, "example", Dot, "co", Dot, "uk">>
    /\ fav.main = <<"example", Dot, "co", Dot, "uk">>
    /\ fav.again = fav.main

\* C27: the requests go to the direct candidates in their listed order, then
\* to the icon links of the root page in page order; a request that answers
\* 200 with an image type is the last one and its URL is returned; the root
\* page is fetched only after all four direct candidates failed; the
\* favicon-service URL is returned only after every request failed and every
\* icon link found was tried, and it is never requested.
C27_FallbackOrder ==
    fav.op = "probing" =>
        /\ \A i \in 1..Len(fav.probes) :
              /\ fav.probes[i].url =
                    IF i <= 4 THEN candidates(fav.main)[i]
                    ELSE iconUrl(fav.main, fav.links[i - 4])
              /\ fav.probes[i].ok =>
                    /\ i = Len(fav.probes)
                    /\ fav.pc = "done"
                    /\ fav.result = fav.probes[i].url
              /\ fav.probes[i].url # ServiceUrl(fav.main)
        /\ fav.page # "none" =>
              /\ fav.pageAt = 4
              /\ \A i \in 1..4 : ~fav.probes[i].ok
        /\ Len(fav.probes) > 4 => fav.page = "fetched"
        /\ fav.pc = "done" =>
              \/ /\ fav.probes # <<>>
                 /\ fav.probes[Len(fav.probes)].ok
              \/ /\ fav.result = ServiceUrl(fav.main)
                 /\ fav.page # "none"
                 /\ \A i \in 1..Len(fav.probes) : ~fav.probes[i].ok
                 /\ Len(fav.probes) = 4 + Len(fav.links)

C27_Witness ==
    /\ fav.op = "probing" /\ fav.pc = "done"
    /\ fav.page = "fetched" /\ Len(fav.links) = 2
    /\ Len(fav.probes) = 5
    /\ fav.probes[5].ok
    /\ fav.result = iconUrl(fav.main, fav.links[1])
    /\ Head(fav.links[1]) \notin {"/", "https://"}

-----------------------------------------------------------------------------
(* Claims on the sort and the content block, checked under SpecFormat *)

Sorted == fmt.op = "sort" /\ fmt.done
Rendered == fmt.op = "snippet" /\ fmt.done /\ fmt.block

\* The position of an item in a batch that holds it
PosIn(s, item) == CHOOSE i \in 1..Len(s) : s[i] = item

Undated(item) == item.pubDate = NoDate \/ isNaN(GetTime(item.pubDate))

\* C24: the sorted batch holds the items of the fetched batch, and an item
\* whose pubDate is missing or does not parse stands before each item it was
\* fetched before and after each item it was fetched after.
C24_UndatedKeepFetchOrder ==
    Sorted =>
        /\ Len(fmt.sorted) = Len(fmt.batch)
        /\ \A i \in 1..Len(fmt.batch) : \E j \in 1..Len(fmt.sorted) :
              fmt.sorted[j] = fmt.batch[i]
        /\ \A i, j \in 1..Len(fmt.batch) :
              (i < j /\ (Undated(fmt.batch[i]) \/ Undated(fmt.batch[j])))
                  => PosIn(fmt.sorted, fmt.batch[i])
                        < PosIn(fmt.sorted, fmt.batch[j])

\* C29: a snippet longer than 500 characters is rendered as its first 500
\* characters, trimmed, followed by "..."; a snippet of at most 500 characters
\* (500 included) is rendered whole, trimmed, with nothing appended.
C29_ContentTruncation ==
    Rendered =>
        LET n == Len(fmt.snippet)
            m == Len(fmt.text)
        IN  /\ n > 500 =>
                /\ m >= 3 /\ m <= 500 + 3
                /\ SubSeq(fmt.text, m - 2, m) = Ellipsis
                /\ SubSeq(fmt.text, 1, m - 3) = Trim(SubSeq(fmt.snippet, 1, 500))
            /\ n <= 500 => fmt.text = Trim(fmt.snippet)

C29_Witness ==
    /\ Rendered
    /\ Len(fmt.snippet) = 500
    /\ fmt.snippet[1] = "x" /\ fmt.snippet[500] = "x"
    /\ fmt.text = fmt.snippet

\* A snippet one character over the limit loses it and gets the marker
C29_WitnessOver ==
    /\ Rendered
    /\ Len(fmt.snippet) = 501
    /\ fmt.snippet[1] = "x" /\ fmt.snippet[500] = "x"
    /\ fmt.text = SubSeq(fmt.snippet, 1, 500) \o Ellipsis

\* The arguments of the call of updateRssStatus are the fields of the last
\* item of the batch
SetWithLast(p) ==
    LET last == cyc[p].newItems[Len(cyc[p].newItems)]
    IN  /\ mon[p].c.setCalls[cyc[p].fi] = 1
        /\ cyc[p].data.lastItemId = last.guid
        /\ cyc[p].data.lastPublishDate = Parsed(last)
        /\ cyc[p].data.lastTitle = last.title

\* After a fetch that succeeded and gave a batch, every pair has had its turn
\* and updateRssStatus has been called once with the last item, whatever the
\* pairs did
C26_SetWhateverTheSends ==
    \A p \in Procs :
        (cyc[p].pc \in {"updWrite", "next"} /\ cyc[p].newItems # <<>>)
            => /\ cyc[p].fi \in mon[p].c.fetchedOk
               /\ mon[p].f.pairs = Len(cyc[p].newItems) * Len(Feed(p).channels)
               /\ SetWithLast(p)

\* C26: after a fetch that succeeded and gave a batch, updateRssStatus is
\* called once with the last item of the batch when every pair has had its
\* turn, whatever the pairs did; and an item that a destination did not
\* receive in a cycle whose watermark write succeeded is not classified new
\* in the following cycle (for feeds whose items carry stable ids).
C26_AdvanceWhateverTheSends ==
    \A p \in Procs :
        /\ (cyc[p].pc \in {"updWrite", "next"} /\ cyc[p].newItems # <<>>)
              => /\ cyc[p].fi \in mon[p].c.fetchedOk
                 /\ mon[p].f.pairs
                      = Len(cyc[p].newItems) * Len(Feed(p).channels)
                 /\ SetWithLast(p)
        /\ (/\ Classified(p) /\ mon[p].f.read = "found"
            /\ StableIds(cyc[p].feedData))
              => \A k \in 1..Len(cyc[p].newItems) :
                    cyc[p].newItems[k] \notin prev.undelivered[cyc[p].fi]

\* All sends of a batch failed and the watermark was written
C26_AllFailedStillWritten ==
    \E p \in Procs :
        /\ cyc[p].pc = "next" /\ mon[p].f.write = "ok"
        /\ Len(cyc[p].newItems) = 2
        /\ mon[p].c.undelivered[cyc[p].fi]
              = {cyc[p].newItems[1], cyc[p].newItems[2]}
        /\ mon[p].f.sends = 0

-----------------------------------------------------------------------------
(* Claims on the webhook cache, checked under SpecWebhook *)

\* A call that found no entry in the cache has returned
Missed == wh.pc = "returned" /\ ~wh.hit

HasToken(webhooks) == \E i \in 1..Len(webhooks) : webhooks[i]

\* C28: a call that found no entry creates a webhook only when the list it
\* got holds no webhook with a token; when the list holds one, the first of
\* them is returned and cached and the list is left as it was; for a thread
\* with a parent the list is asked of the parent and the webhook is created
\* on the parent, for any other channel on the channel itself.
C28_CreateOnlyWithoutToken ==
    /\ [](Missed =>
            /\ wh.createdOn # Null =>
                  /\ ~HasToken(wh.seen)
                  /\ wh.createdOn = wh.listedOn
            /\ HasToken(wh.seen) =>
                  /\ wh.createdOn = Null
                  /\ wh.webhooks[wh.listedOn] = wh.seen
                  /\ wh.webhook.on = wh.listedOn
                  /\ wh.seen[wh.webhook.n]
                  /\ \A j \in 1..(wh.webhook.n - 1) : ~wh.seen[j]
                  /\ wh.cache[wh.channel] = wh.webhook
            /\ wh.listedOn = (IF wh.channel = "T" THEN "A" ELSE wh.channel))
    /\ [][\A c \in TextChannels :
            wh'.webhooks[c] # wh.webhooks[c]
                => /\ c = (IF wh.channel = "T" THEN "A" ELSE wh.channel)
                   /\ ~wh.hit
                   /\ wh'.webhooks[c] = Append(wh.webhooks[c], TRUE)]_vars

C28_Witness ==
    /\ Missed
    /\ wh.channel = "T"
    /\ wh.seen = <<FALSE, TRUE>>
    /\ wh.webhook = Webhook("A", 2)
    /\ wh.cache["T"] = wh.webhook
    /\ wh.cache["A"] = NoWebhook

\* A thread call that created its webhook on the parent
C28_WitnessCreated ==
    /\ Missed
    /\ wh.channel = "T"
    /\ wh.seen = <<FALSE>>
    /\ wh.createdOn = "A"
    /\ wh.webhooks["A"] = <<FALSE, TRUE>>
    /\ wh.cache["T"] = Webhook("A", 2)

\* C34: a call that returned null has left no entry for its channel; an
\* entry is only ever set to the webhook a call returns; and a call for a
\* channel without an entry asks the channel's webhooks again.
C34_FailureNotCached ==
    /\ []((wh.pc = "returned" /\ wh.webhook = NoWebhook)
            => wh.cache[wh.channel] = NoWebhook)
    /\ [][\A d \in Destinations :
            wh'.cache[d] # wh.cache[d]
                => /\ d = wh.channel
                   /\ wh'.pc = "returned"
                   /\ wh'.webhook # NoWebhook
                   /\ wh'.cache[d] = wh'.webhook]_vars
    /\ [][(wh'.calls # wh.calls /\ wh.cache[wh'.channel] = NoWebhook)
            => wh'.pc = "fetchWebhooks"]_vars

\* A call for a channel succeeds after an earlier call for it failed
C34_Witness ==
    /\ wh.pc = "returned" /\ ~wh.hit
    /\ wh.channel \in wh.failed
    /\ wh.webhook # NoWebhook
    /\ wh.cache[wh.channel] = wh.webhook

-----------------------------------------------------------------------------
(* Claims on the scheduler, checked under SpecSched *)

ServiceStarted == sched.svc # "none"

\* Every tick starts a cycle, and a schedule that exists stays
TicksStartCycles ==
    /\ [](sched.svc = "scheduled" /\ sched.ticks < MaxTicks => ENABLED CronTick)
    /\ [][/\ sched'.ticks # sched.ticks
             => (sched'.ticks = sched.ticks + 1
                 /\ sched'.started = sched.started + 1)
          /\ sched.svc = "scheduled" => sched'.svc = "scheduled"]_vars

C18_CycleFailureKeepsSchedule ==
    /\ [](/\ (sched.failed > 0 /\ sched.ended >= 1) => sched.svc = "scheduled"
          /\ (ServiceStarted /\ sched.nFeeds = 0)
                => (sched.svc = "refused" /\ sched.started = 0))
    /\ [](sched.svc = "scheduled" /\ sched.ticks < MaxTicks => ENABLED CronTick)
    /\ [][sched'.failed # sched.failed
            => /\ sched'.svc = "scheduled"
               /\ sched'.started = sched.started]_vars

\* C18 as stated: once the service has been started and its first cycle is
\* over, the schedule exists, the empty feed list included.
C18_AsStated ==
    (ServiceStarted /\ sched.ended = sched.started) => sched.svc = "scheduled"

C18_Witness ==
    /\ sched.svc = "scheduled"
    /\ sched.failed = 2 /\ sched.ended = 2
    /\ sched.started = 3 /\ sched.ticks = 2

-----------------------------------------------------------------------------
(* Claims on overlapping cycles, checked under SpecOverlap *)

\* C14: a cache entry, once set, is never replaced or removed, and a resolve
\* that finds an entry for its destination returns that entry without
\* listing or creating webhooks.
C14_CacheStable ==
    /\ [][\A ch \in Channels :
            webhookCache[ch] # 0 => webhookCache'[ch] = webhookCache[ch]]_vars
    /\ [][\A p \in DOMAIN cyc :
            (cyc[p].pc = "resolve" /\ webhookCache[Channel(p)] # 0)
                => /\ cyc'[p].pc \notin {"listHooks", "createHook"}
                   /\ cyc'[p].pc = "send"
                         => cyc'[p].webhook = webhookCache[Channel(p)]
                   /\ cyc'[p] # cyc[p] => hooks' = hooks]_vars

\* C19: a tick starts a cycle in a free invocation slot whether or not
\* another cycle is running: nothing skips or queues it.
C19_TicksNotExclusive ==
    \A p \in Overlapping :
        (service = "scheduled" /\ cycles < MaxCycles /\ cyc[p].pc = "idle")
            => ENABLED Tick(p)

\* Two cycles are running on the same feed: both read its record as absent,
\* both sent through the cached webhook of channel A, both are about to
\* write the record
C19_Witness ==
    /\ cyc[1].pc = "updWrite" /\ cyc[2].pc = "updWrite"
    /\ cyc[1].fi = 1 /\ cyc[2].fi = 1
    /\ mon[1].f.read = "absent" /\ mon[2].f.read = "absent"
    /\ webhookCache["A"] # 0
    /\ mon[1].i.ok["A"] = 1 /\ mon[2].i.ok["A"] = 1

\* The item the observations of p are about, when its cycle has not yet left
\* the feed's dispatch and watermark write
Dispatching(p) ==
    /\ cyc[p].pc \in {"resolve", "listHooks", "createHook", "send", "update",
                      "updWrite"}
    /\ mon[p].i.item > 0

\* C31: two cycles that are at the same feed, neither past its watermark
\* write, have not both delivered the same item to the same destination.
C31_NoDuplicateAcrossCycles ==
    \A p, q \in DOMAIN cyc : \A ch \in Channels :
        (/\ p # q
         /\ Dispatching(p) /\ Dispatching(q)
         /\ cyc[p].fi = cyc[q].fi
         /\ cyc[p].newItems[mon[p].i.item] = cyc[q].newItems[mon[q].i.item])
            => ~(mon[p].i.ok[ch] > 0 /\ mon[q].i.ok[ch] > 0)

\* C32: at most one webhook is ever created for a destination (no webhook
\* exists at the start, so hooks counts the webhooks created).
C32_AtMostOneCreated ==
    \A ch \in Channels : hooks[ch] <= 1

\* C33: a write on a record that exists keeps its createdAt, and the record
\* carries the watermark fields of the write.
C33_CreatedAtStampedOnce ==
    [][\A p \in DOMAIN cyc :
          (cyc[p].pc = "updWrite" /\ rssStore'[Feed(p).url] # rssStore[Feed(p).url])
              => /\ rssStore[Feed(p).url].exists
                    => rssStore'[Feed(p).url].createdAt
                          = rssStore[Feed(p).url].createdAt
                 /\ rssStore'[Feed(p).url].lastItemId = cyc[p].data.lastItemId
                 /\ rssStore'[Feed(p).url].lastPublishDate
                      = cyc[p].data.lastPublishDate
                 /\ rssStore'[Feed(p).url].lastTitle = cyc[p].data.lastTitle]_vars

-----------------------------------------------------------------------------
(* Claims on the termination of a cycle, checked under SpecLive *)

\* C35: every started cycle ends, and it ends by processRssFeeds returning
\* (after the loop over the feeds, or at once when no feed is configured).
C35_CycleTerminates ==
    /\ \A p \in Procs : (cyc[p].pc = "start") ~> (cyc[p].pc = "idle")
    /\ [][\A p \in Procs :
            (cyc[p].pc # "idle" /\ cyc'[p].pc = "idle")
                => \/ cyc[p].pc = "done"
                   \/ cyc[p].pc = "start" /\ Len(rssConfig) = 0]_vars

\* A cycle in which a call failed (no watermark written although the first
\* feed had a new item) has ended
C35_Witness ==
    /\ cycles = 1
    /\ service = "scheduled"
    /\ cyc[1].pc = "idle"
    /\ feedSrc["ux"] # <<>>
    /\ prev.wroteOk = {}

-----------------------------------------------------------------------------
(* Claims on the conversation store, checked under SpecConv *)

LastCall(u) == conv'.count[u] # conv.count[u]

TimersOf(c, u) == { t \in c.timers : t.user = u }

\* C36: a history holds at most MAX_HISTORY_LENGTH messages, consecutive
\* arrivals that end with the latest one; a reply adds one message to the
\* history (the oldest leaves a full history) and a message that is not a
\* reply leaves the history with that message alone.
C36_HistoryBounded ==
    /\ [](\A u \in Users :
            LET h == conv.history[u]
            IN  /\ Len(h) <= MAX_HISTORY_LENGTH
                /\ \A i \in 1..(Len(h) - 1) : h[i + 1].n = h[i].n + 1
                /\ h # <<>> => h[Len(h)].n = conv.count[u])
    /\ [][\A u \in Users :
            LastCall(u)
                => /\ conv'.reply
                       => Len(conv'.history[u])
                            = IF Len(conv.history[u]) < MAX_HISTORY_LENGTH
                              THEN Len(conv.history[u]) + 1
                              ELSE MAX_HISTORY_LENGTH
                   /\ ~conv'.reply
                       => conv'.history[u]
                            = << [role |-> "user", n |-> conv'.count[u]] >>]_vars

\* A full history has lost its oldest message
C36_Witness ==
    \E u \in Users :
        /\ Len(conv.history[u]) = MAX_HISTORY_LENGTH
        /\ conv.history[u][1].n > 1
        /\ conv.count[u] > MAX_HISTORY_LENGTH

\* C37: the list handed to the API begins with a message of the user.
C37_FirstIsUser ==
    conv.handed # <<>> => conv.handed[1].role = "user"

\* C38: a user has at most one pending timer, the one the map holds, and has
\* one while the history exists; a call leaves the user with the timer it
\* armed, due a full timeout later; the history is removed only a full
\* timeout after its last update, together with the entry of the timer.
C38_OneTimer ==
    /\ [](\A u \in Users :
            /\ Cardinality(TimersOf(conv, u)) <= 1
            /\ \A t \in TimersOf(conv, u) : conv.timeouts[u] = t.id
            /\ u \in conv.known => TimersOf(conv, u) # {})
    /\ [][\A u \in Users :
            LastCall(u)
                => TimersOf(conv', u)
                     = { [id |-> conv'.count[u], user |-> u,
                          due |-> conv.now + CONVERSATION_TIMEOUT] }]_vars
    /\ [][\A u \in Users :
            (u \in conv.known /\ u \notin conv'.known)
                => /\ conv.now >= conv.updated[u] + CONVERSATION_TIMEOUT
                   /\ conv'.timeouts[u] = 0
                   /\ TimersOf(conv', u) = {}]_vars

\* The timer armed by a later call has fired and removed the history
C38_Witness ==
    \E u \in Users :
        /\ conv.count[u] >= 2
        /\ conv.updated[u] > 0
        /\ u \notin conv.known
        /\ conv.timeouts[u] = 0
        /\ conv.timers = {}

-----------------------------------------------------------------------------
(* Claims on the dedup functions, checked under SpecDedup *)

Classification == dd.op = "isNew" /\ dd.done
Comparison == dd.op = "compare" /\ dd.done

IdTier == dd.item.guid # Null /\ dd.mark.lastItemId # Null
DateTier == dd.item.pubDate # NoDate /\ dd.mark.lastPublishDate # NoDate
TitleTier == dd.item.title # Null /\ dd.mark.lastTitle # Null

\* C7: an item with an id, against a watermark with a lastItemId, is new
\* exactly when the ids differ, whatever the dates and titles are.
C7_IdTierPrecedence ==
    (Classification /\ IdTier)
        => (dd.isNew <=> dd.item.guid # dd.mark.lastItemId)

C7_Witness ==
    /\ Classification /\ IdTier
    /\ dd.item.guid # dd.mark.lastItemId
    /\ Parsed(dd.item) # NoDate /\ dd.mark.lastPublishDate # NoDate
    /\ Parsed(dd.item) <= dd.mark.lastPublishDate
    /\ dd.item.title = dd.mark.lastTitle /\ dd.item.title # Null
    /\ dd.isNew

\* C8: outside the id tier, an item with a publish date against a watermark
\* with a lastPublishDate is new exactly when its date parses and its instant
\* is strictly later than the stored one; and safeCompareDate answers by the
\* instants its arguments denote, whatever their representation.
C8_DateTier ==
    /\ (Classification /\ ~IdTier /\ DateTier)
          => (dd.isNew <=> (/\ Parsed(dd.item) # NoDate
                            /\ Parsed(dd.item) > dd.mark.lastPublishDate))
    /\ Comparison
          => (dd.later <=> (/\ ~isNaN(InstantOf(dd.date1))
                            /\ ~isNaN(InstantOf(dd.date2))
                            /\ InstantOf(dd.date1) > InstantOf(dd.date2)))

\* C9: outside the id and date tiers, an item with a title against a
\* watermark with a lastTitle is new exactly when the titles differ; when no
\* tier applies the item is new.
C9_TitleTierAndDefault ==
    (Classification /\ ~IdTier /\ ~DateTier)
        => (dd.isNew <=> (TitleTier => dd.item.title # dd.mark.lastTitle))

C9_Witness ==
    /\ Classification /\ ~IdTier /\ ~DateTier /\ TitleTier
    /\ dd.mark.lastItemId # Null /\ dd.mark.lastPublishDate # NoDate
    /\ dd.item.title = dd.mark.lastTitle
    /\ ~dd.isNew

=============================================================================
